---- MODULE Spec2Model ----
(***************************************************************************)
(* A model of the fun-command engine of the D.S.O bot (src/fun.py, called  *)
(* from src/Bot.py): the message parser, the member resolver, the          *)
(* per-(user, action) cooldown store, the per-guild recent-GIF list, the    *)
(* GIF resolver with its Tenor and bundled tiers, and send_owo_style cut    *)
(* into one action per stretch of code between two awaits; the scheduled  *)
(* poster of src/memes.py; and the control set of a response, for which    *)
(* src/ holds no code.                                                     *)
(*                                                                         *)
(* Text is a sequence of one-character strings, so that the regular        *)
(* expressions of the parser are computed character by character.          *)
(***************************************************************************)
EXTENDS Integers, Sequences, FiniteSets, Bags, TLC

(***************************************************************************)
(* Bounds of the model (not program values).                               *)
(***************************************************************************)
\* handle_message_event coroutines that may be in flight at once, under Spec
\* and under SpecConc
RateTasks == 1
ConcTasks == 2
\* seconds the clock may advance past its starting value, under Spec and
\* under SpecConc
RateHorizon == 4
ConcHorizon == 2

(***************************************************************************)
(* Configuration constants.  src/fun.py uses these names but the file      *)
(* holds no assignment for them; the values are the ones the spec gives    *)
(* as examples, scaled to the size of the bundled lists of this model.     *)
(***************************************************************************)
COOLDOWN_SECONDS == 2
RECENT_GIF_RETENTION == 2
MAX_GIF_CANDIDATES == 3
MAX_REACTIONS == 2
GENERIC_FALLBACK_GIFS == << "x1", "x2" >>

(***************************************************************************)
(* Characters and text.                                                    *)
(***************************************************************************)
UpperToLower ==
  [c \in {"A","B","C","D","F","G","H","L","M","O","P","S","U","Y"} |->
     CASE c = "A" -> "a" [] c = "B" -> "b" [] c = "C" -> "c" [] c = "D" -> "d"
       [] c = "F" -> "f" [] c = "G" -> "g" [] c = "H" -> "h" [] c = "L" -> "l"
       [] c = "M" -> "m" [] c = "O" -> "o" [] c = "P" -> "p" [] c = "S" -> "s"
       [] c = "U" -> "u" [] c = "Y" -> "y"]

\* U+017F, LATIN SMALL LETTER LONG S: str.lower() leaves it as it is, and a
\* pattern compiled with re.IGNORECASE matches it where the pattern has an s
LongS == "long_s"

\* str.lower() on one character
LowerChar(c) == IF c \in DOMAIN UpperToLower THEN UpperToLower[c] ELSE c

\* str.lower()
Lower(s) == [i \in 1..Len(s) |-> LowerChar(s[i])]

\* whether character x matches the lower-case pattern character c under
\* re.IGNORECASE
MatchesCI(x, c) == LowerChar(x) = c \/ (c = "s" /\ x = LongS)

Digits == {"0","1","2","3","4","5","6","7","8","9"}

IsDigit(c) == c \in Digits

\* \s of the regular expressions, and the characters str.strip() removes
IsSpace(c) == c \in {" ", "\t"}

DigitValue(c) ==
  CASE c = "0" -> 0 [] c = "1" -> 1 [] c = "2" -> 2 [] c = "3" -> 3 [] c = "4" -> 4
    [] c = "5" -> 5 [] c = "6" -> 6 [] c = "7" -> 7 [] c = "8" -> 8 [] c = "9" -> 9

\* int(s) for a string of digits
RECURSIVE ToInt(_)
ToInt(s) ==
  IF Len(s) = 0 THEN 0
  ELSE 10 * ToInt(SubSeq(s, 1, Len(s) - 1)) + DigitValue(s[Len(s)])

\* str.isdigit(): non-empty and all digits
IsDigitString(s) == Len(s) > 0 /\ \A i \in 1..Len(s) : IsDigit(s[i])

\* the first position >= p of s whose character does not satisfy the class
\* (Len(s) + 1 when there is none): the end of a greedy run
RECURSIVE DigitRunEnd(_, _)
DigitRunEnd(s, p) ==
  IF p <= Len(s) /\ IsDigit(s[p]) THEN DigitRunEnd(s, p + 1) ELSE p

RECURSIVE SpaceRunEnd(_, _)
SpaceRunEnd(s, p) ==
  IF p <= Len(s) /\ IsSpace(s[p]) THEN SpaceRunEnd(s, p + 1) ELSE p

RECURSIVE NonSpaceRunEnd(_, _)
NonSpaceRunEnd(s, p) ==
  IF p <= Len(s) /\ ~IsSpace(s[p]) THEN NonSpaceRunEnd(s, p + 1) ELSE p

RECURSIVE LastNonSpace(_, _)
LastNonSpace(s, p) ==
  IF p >= 1 /\ IsSpace(s[p]) THEN LastNonSpace(s, p - 1) ELSE p

\* str.strip()
Strip(s) == SubSeq(s, SpaceRunEnd(s, 1), LastNonSpace(s, Len(s)))

\* whether the pattern word w (lower case) matches s at position p under
\* re.IGNORECASE
StartsWithCI(s, p, w) ==
  /\ p + Len(w) - 1 <= Len(s)
  /\ \A i \in 1..Len(w) : MatchesCI(s[p + i - 1], w[i])

(***************************************************************************)
(* The action table and the command patterns.                              *)
(***************************************************************************)
Hug == << "h", "u", "g" >>
Slap == << "s", "l", "a", "p" >>

\* ACTIONS of the source (a reserved word here): two of the 28 names, in the
\* order of the list, which is the order of the alternation
ACTION_NAMES == << Hug, Slap >>

\* (?P<target><@!?\d+>|\d+|[^\s]+) at position p: the position after the
\* match, or 0 when no alternative matches.  The alternatives are tried in
\* order and nothing follows the group, so the first one that matches wins.
TargetEnd(s, p) ==
  LET q == IF p + 2 <= Len(s) /\ s[p + 2] = "!" THEN p + 3 ELSE p + 2
      d == DigitRunEnd(s, q)
      mention == /\ p + 1 <= Len(s)
                 /\ s[p] = "<"
                 /\ s[p + 1] = "@"
                 /\ d > q
                 /\ d <= Len(s)
                 /\ s[d] = ">"
  IN  IF p > Len(s) THEN 0
      ELSE IF mention THEN d + 1
      ELSE IF DigitRunEnd(s, p) > p THEN DigitRunEnd(s, p)
      ELSE IF NonSpaceRunEnd(s, p) > p THEN NonSpaceRunEnd(s, p)
      ELSE 0

NoMatch == [matched |-> FALSE, action |-> << >>, target |-> << >>]

\* the separator and the target after an action that ends before position p:
\* "@" for ACTION_PATTERN_NO_SPACE, \s+ for ACTION_PATTERN_SPACE
TargetStart(s, p, nospace) ==
  IF nospace
  THEN IF p <= Len(s) /\ s[p] = "@" THEN p + 1 ELSE 0
  ELSE IF SpaceRunEnd(s, p) > p THEN SpaceRunEnd(s, p) ELSE 0

\* the action alternation at position p followed by separator and target
MatchFrom(s, p, nospace) ==
  LET ok(a) == /\ StartsWithCI(s, p, ACTION_NAMES[a])
               /\ TargetStart(s, p + Len(ACTION_NAMES[a]), nospace) > 0
               /\ TargetEnd(s, TargetStart(s, p + Len(ACTION_NAMES[a]), nospace)) > 0
      cands == {a \in 1..Len(ACTION_NAMES) : ok(a)}
  IN  IF p < 1 \/ cands = {} THEN NoMatch
      ELSE LET a == CHOOSE x \in cands : \A y \in cands : x <= y
               e == p + Len(ACTION_NAMES[a])
               b == TargetStart(s, e, nospace)
           IN  [matched |-> TRUE,
                action |-> SubSeq(s, p, e - 1),
                target |-> SubSeq(s, b, TargetEnd(s, b) - 1)]

\* pattern.match(content): the optional prefix dso\s+ is tried first, and
\* given up when the rest does not match after it
PatternMatch(s, nospace) ==
  LET q == SpaceRunEnd(s, 4)
      withPrefix == IF StartsWithCI(s, 1, << "d", "s", "o" >>) /\ q > 4
                    THEN MatchFrom(s, q, nospace)
                    ELSE NoMatch
  IN  IF withPrefix.matched THEN withPrefix ELSE MatchFrom(s, 1, nospace)

ACTION_PATTERN_NO_SPACE(s) == PatternMatch(s, TRUE)

ACTION_PATTERN_SPACE(s) == PatternMatch(s, FALSE)

\* HELP_PATTERN.match(lc): ^dso\s+f\.?c\.?$
HELP_PATTERN(s) ==
  LET q == SpaceRunEnd(s, 4)
      c == IF q + 1 <= Len(s) /\ s[q + 1] = "." THEN q + 2 ELSE q + 1
      e == IF c + 1 <= Len(s) /\ s[c + 1] = "." THEN c + 2 ELSE c + 1
  IN  /\ StartsWithCI(s, 1, << "d", "s", "o" >>)
      /\ q > 4
      /\ q <= Len(s)
      /\ MatchesCI(s[q], "f")
      /\ c <= Len(s)
      /\ MatchesCI(s[c], "c")
      /\ e = Len(s) + 1

(***************************************************************************)
(* Guild members and resolve_member.                                       *)
(***************************************************************************)
\* guild.members, in the order the client library lists them
Members ==
  << [id |-> 1, name |-> << "b", "o", "b" >>, discriminator |-> << "7" >>,
      display_name |-> << "B", "o" >>],
     [id |-> 2, name |-> << "1", "u", "p" >>, discriminator |-> << "3" >>,
      display_name |-> << "A", "m", "y" >>] >>

\* the ids of a member list
IdsOf(members) == {members[k].id : k \in 1..Len(members)}

MemberIds == IdsOf(Members)

\* None
NoMember == 0

\* guild.get_member(uid) in a guild with the given member list: the member's
\* id, or None
get_member_of(members, uid) == IF uid \in IdsOf(members) THEN uid ELSE NoMember

\* guild.get_member(uid): the member's id, or None
get_member(uid) == get_member_of(Members, uid)

\* MENTION_RE.match(token): <@!?(?P<id>\d+)> at the start of the token
MENTION_RE(s) ==
  LET q == IF 3 <= Len(s) /\ s[3] = "!" THEN 4 ELSE 3
      d == DigitRunEnd(s, q)
  IN  IF /\ 2 <= Len(s)
         /\ s[1] = "<"
         /\ s[2] = "@"
         /\ d > q
         /\ d <= Len(s)
         /\ s[d] = ">"
      THEN [matched |-> TRUE, id |-> SubSeq(s, q, d - 1)]
      ELSE [matched |-> FALSE, id |-> << >>]

\* the tag of a member, lowered: f"{mem.name}#{mem.discriminator}".lower()
Combo(mem) == Lower(mem.name \o << "#" >> \o mem.discriminator)

\* the condition of the loop over guild.members for one member
NameHit(mem, lowered) ==
  \/ Combo(mem) = lowered
  \/ Lower(mem.display_name) = lowered
  \/ Lower(mem.name) = lowered

\* the loop over guild.members: the first member, in list order, whose tag,
\* display name or username equals the lowered token
NameMatchOf(members, lowered) ==
  LET hits == {k \in 1..Len(members) : NameHit(members[k], lowered)}
  IN  IF hits = {} THEN NoMember
      ELSE members[CHOOSE k \in hits : \A j \in hits : k <= j].id

FirstNameMatch(lowered) == NameMatchOf(Members, lowered)

\* resolve_member for a guild with the given member list (hasGuild: whether
\* the guild is not None)
resolve_member_of(members, hasGuild, tok) ==
  LET token == Strip(tok)
      m == MENTION_RE(token)
      byMention == IF m.matched THEN get_member_of(members, ToInt(m.id)) ELSE NoMember
      byId == IF IsDigitString(token) THEN get_member_of(members, ToInt(token)) ELSE NoMember
  IN  IF ~hasGuild THEN NoMember
      ELSE IF byMention # NoMember THEN byMention
      ELSE IF byId # NoMember THEN byId
      ELSE NameMatchOf(members, Lower(token))

resolve_member(hasGuild, tok) == resolve_member_of(Members, hasGuild, tok)

(***************************************************************************)
(* Cooldown store: {(user_id, action): last_timestamp}.                    *)
(***************************************************************************)
\* _COOLDOWNS.get(key, 0.0)
CooldownGet(cd, key) == IF key \in DOMAIN cd THEN cd[key] ELSE 0

\* a limiter that looks the user up under any action: the cooldown of the
\* spec, keyed by user alone
get_cooldown_remaining_per_user(cd, user, action, t) ==
  LET times == {cd[k] : k \in {j \in DOMAIN cd : j[1] = user}}
      elapsed == t - (IF times = {} THEN 0
                      ELSE CHOOSE x \in times : \A y \in times : y <= x)
  IN  IF elapsed < COOLDOWN_SECONDS THEN COOLDOWN_SECONDS - elapsed ELSE 0

get_cooldown_remaining(cd, user, action, t) ==
  LET elapsed == t - CooldownGet(cd, << user, action >>)
  IN  IF elapsed < COOLDOWN_SECONDS THEN COOLDOWN_SECONDS - elapsed ELSE 0

\* a set_cooldown whose write is lost
set_cooldown_lost(cd, user, action, t) == cd

\* a set_cooldown keyed by the action alone: it stamps the entry of every
\* user for the action
set_cooldown_by_action(cd, user, action, t) ==
  [k \in DOMAIN cd \cup {<< user, action >>} |->
     IF k[2] = action THEN t ELSE cd[k]]

set_cooldown(cd, user, action, t) ==
  [k \in DOMAIN cd \cup {<< user, action >>} |->
     IF k = << user, action >> THEN t ELSE cd[k]]

(***************************************************************************)
(* Recent-GIF list of a guild, most recent first.                          *)
(***************************************************************************)
InSeq(x, arr) == \E k \in 1..Len(arr) : arr[k] = x

\* list.remove(x): the first occurrence goes
RemoveFirst(arr, x) ==
  LET k == CHOOSE j \in 1..Len(arr) : arr[j] = x /\ \A h \in 1..(j - 1) : arr[h] # x
  IN  SubSeq(arr, 1, k - 1) \o SubSeq(arr, k + 1, Len(arr))

\* an add_recent_gif that never drops the oldest entry
add_recent_gif_untrimmed(arr, gif_url) ==
  << gif_url >> \o (IF InSeq(gif_url, arr) THEN RemoveFirst(arr, gif_url) ELSE arr)

\* an add_recent_gif that inserts without looking for the URL in the list
add_recent_gif_unremoved(arr, gif_url, retention) ==
  IF Len(arr) + 1 > retention THEN SubSeq(<< gif_url >> \o arr, 1, retention)
  ELSE << gif_url >> \o arr

\* add_recent_gif with RECENT_GIF_RETENTION being retention
add_recent_gif_at(arr, gif_url, retention) ==
  LET removed == IF InSeq(gif_url, arr) THEN RemoveFirst(arr, gif_url) ELSE arr
      inserted == << gif_url >> \o removed
  IN  IF Len(inserted) > retention
      THEN SubSeq(inserted, 1, retention)
      ELSE inserted

\* the new value of _RECENT_GIFS[str(guild_id)]
add_recent_gif(arr, gif_url) == add_recent_gif_at(arr, gif_url, RECENT_GIF_RETENTION)

(***************************************************************************)
(* The GIF tiers.                                                          *)
(***************************************************************************)
\* FALLBACK_GIFS after the padding loop: a list per name of ACTION_NAMES
FALLBACK_GIFS ==
  [a \in {Hug, Slap} |-> IF a = Hug THEN << "g1", "g2", "g3" >>
                         ELSE << "g2", "g4" >>]

\* FALLBACK_GIFS.get(action, [])
FallbackGet(action) ==
  IF action \in DOMAIN FALLBACK_GIFS THEN FALLBACK_GIFS[action] ELSE << >>

\* None, for a URL
NoURL == "none"

\* What the Tenor request of one resolution does: it times out, the network
\* raises, the status is not 200, the payload is malformed (the parsing raises
\* after the URLs of urls were collected), or it yields the URLs of urls.
TenorResults ==
  { << >>, << "t1" >>, << "t1", "t1", "t2" >>,
    << "t2", "t2", "t1", "t3", "t4" >> }

TenorOutcomes ==
  [kind : {"ok"}, urls : TenorResults]
    \cup [kind : {"timeout", "network", "non200"}, urls : {<< >>}]
    \cup [kind : {"malformed"}, urls : {<< "t1", "t2", "t3" >>}]

\* the body of the try block: whether it raised, and gifs as it left it
tenor_request(outcome) ==
  CASE outcome.kind \in {"timeout", "network"} -> [raised |-> TRUE, gifs |-> << >>]
    [] outcome.kind = "non200" -> [raised |-> FALSE, gifs |-> << >>]
    [] outcome.kind = "malformed" -> [raised |-> TRUE, gifs |-> outcome.urls]
    [] OTHER -> [raised |-> FALSE, gifs |-> outcome.urls]

\* the try block without its handler: what the request raises goes up
tenor_unguarded(configured, outcome) ==
  IF ~configured THEN [raised |-> FALSE, gifs |-> << >>]
  ELSE tenor_request(outcome)

\* the try block with its handler: except Exception: gifs = []
tenor_guarded(configured, outcome) ==
  IF ~configured THEN [raised |-> FALSE, gifs |-> << >>]
  ELSE IF tenor_request(outcome).raised THEN [raised |-> FALSE, gifs |-> << >>]
  ELSE tenor_request(outcome)

\* a de-duplication loop that never stops early
RECURSIVE DedupeUncapped(_, _)
DedupeUncapped(gifs, uniq) ==
  IF Len(gifs) = 0 THEN uniq
  ELSE DedupeUncapped(Tail(gifs),
                      IF Head(gifs) # NoURL /\ ~InSeq(Head(gifs), uniq)
                      THEN Append(uniq, Head(gifs)) ELSE uniq)

\* the de-duplication loop: a URL joins uniq unless it is there already, and
\* the loop stops once uniq holds MAX_GIF_CANDIDATES
RECURSIVE Dedupe(_, _)
Dedupe(gifs, uniq) ==
  IF Len(gifs) = 0 THEN uniq
  ELSE LET u == Head(gifs)
           next == IF u # NoURL /\ ~InSeq(u, uniq) THEN Append(uniq, u) ELSE uniq
       IN  IF Len(next) >= MAX_GIF_CANDIDATES THEN next
           ELSE Dedupe(Tail(gifs), next)

\* fewer distinct URLs than this and the bundled list is used
MIN_TENOR_GIFS == 3

\* a candidate list that keeps whatever the search returned, however few
CandidatesAnyResult(action, gifs) ==
  IF Len(Dedupe(gifs, << >>)) = 0 THEN FallbackGet(action)
  ELSE Dedupe(gifs, << >>)

\* the candidate list: gifs after "if not gifs or len(gifs) < 3"
Candidates(action, gifs) ==
  LET uniq == Dedupe(gifs, << >>)
  IN  IF Len(uniq) = 0 \/ Len(uniq) < MIN_TENOR_GIFS THEN FallbackGet(action) ELSE uniq

\* the first candidate that is not recent, or NoURL
RECURSIVE FirstFresh(_, _)
FirstFresh(gifs, recent) ==
  IF Len(gifs) = 0 THEN NoURL
  ELSE IF ~InSeq(Head(gifs), recent) THEN Head(gifs)
  ELSE FirstFresh(Tail(gifs), recent)

\* "all are recent -> rotate and pick first"
RotatePick(gifs) ==
  IF Len(gifs) > 0 THEN gifs[1]
  ELSE IF Len(GENERIC_FALLBACK_GIFS) > 0 THEN GENERIC_FALLBACK_GIFS[1]
  ELSE NoURL

\* a selection that takes the first candidate, recent or not
SelectFirst(gifs, recent) == RotatePick(gifs)

\* the selection among the candidates, given the guild's recent list
SelectGif(gifs, recent) ==
  IF FirstFresh(gifs, recent) # NoURL THEN FirstFresh(gifs, recent)
  ELSE RotatePick(gifs)

\* choose_gif_for_action from the point where the Tenor request has ended:
\* whether it raised, the URL it returned and the guild's recent list after it
choose_gif_for_action(recent, action, configured, outcome) ==
  LET t == tenor_guarded(configured, outcome)
      gifs == Candidates(action, t.gifs)
      chosen == SelectGif(gifs, recent)
  IN  IF t.raised THEN [raised |-> TRUE, url |-> NoURL, recent |-> recent]
      ELSE [raised |-> FALSE,
            url |-> chosen,
            recent |-> IF chosen # NoURL THEN add_recent_gif(recent, chosen)
                       ELSE recent]

\* chosen in send_owo_style after the try block around the resolver and the
\* "if not chosen" that follows it
ChosenAfter(action, r) ==
  LET arr == IF Len(FallbackGet(action)) > 0 THEN FallbackGet(action)
             ELSE GENERIC_FALLBACK_GIFS
      c == IF r.raised
           THEN IF Len(arr) > 0 THEN arr[1] ELSE NoURL
           ELSE r.url
  IN  IF c # NoURL THEN c
      ELSE IF Len(GENERIC_FALLBACK_GIFS) > 0 THEN GENERIC_FALLBACK_GIFS[1]
      ELSE NoURL

(***************************************************************************)
(* State.                                                                  *)
(***************************************************************************)
VARIABLES
  now,            \* now_ts(), in whole seconds
  COOLDOWNS,      \* _COOLDOWNS
  RECENT_GIFS,    \* _RECENT_GIFS, by guild id
  TENOR_API_KEY,  \* whether the key is set (fixed when the process starts)
  tasks,          \* the handle_message_event coroutines in flight: a bag of their locals
  accepted,       \* history: the times at which each (user, action) passed the cooldown check
  returned,       \* history: by guild id, what the latest choose_gif_for_action returned
  ev,             \* history: what the latest step did
  saturated,      \* history: by guild id, the actions whose bundled URLs have all been
                  \* recent with no other action resolved since (<< >>: not recorded)
  overlapped,     \* history: by guild id, for the coroutines that await Tenor, what the
                  \* resolutions that ended meanwhile returned (<< >>: not recorded)
  posted_memes,   \* posted_memes of src/memes.py
  delivered,      \* history: the (channel, video id) pairs that were sent, in order
  controls        \* a response's control set, what its controls emitted, the favorites

vars ==
  << now, COOLDOWNS, RECENT_GIFS, TENOR_API_KEY, tasks, accepted, returned, ev,
     saturated, overlapped, posted_memes, delivered, controls >>

\* the state of src/memes.py and of the control sets, which the fun-command
\* engine never touches
elsewhere == << posted_memes, delivered, controls >>

GuildIds == {1, 2}

\* time.time() when the process starts is far beyond COOLDOWN_SECONDS; the
\* clock of the model starts at the least such value
StartTime == COOLDOWN_SECONDS

\* the locals of a coroutine that is about to start
Fresh ==
  [pc |-> "start", author |-> 0, target |-> 0, action |-> << >>, guild |-> 0,
   chosen |-> "none", sent_text |-> FALSE, sent_image |-> FALSE, k |-> 0]

Put(b, t) == b (+) SetToBag({t})

Take(b, t) == b (-) SetToBag({t})

NoMsg == [author |-> 0, bot |-> FALSE, private |-> FALSE, guild |-> 0, content |-> << >>]

NoOutcome == [kind |-> "none", urls |-> << >>]

Ignore == [kind |-> "ignore", action |-> << >>, member |-> 0]

\* op: the step; msg, route, denied: the message a Receive step handled, what
\* handle_message_event did with it, and whether the cooldown check denied it;
\* outcome: the Tenor outcome of a TenorReturn step; resolved, raised, url,
\* before, prev: whether the step ran choose_gif_for_action to its end, whether
\* that raised, what it returned, the guild's recent list before it, and what
\* the resolution before it returned in the same guild; task: the
\* locals of the coroutine before the step; ok: whether the awaited call
\* returned (TRUE) or raised (FALSE), left TRUE by a React step, which goes on
\* alike either way; escaped: whether an exception left on_message in the step;
\* met: what overlapped holds for the coroutine of a TenorReturn step
NoEvent ==
  [op |-> "none", msg |-> NoMsg, route |-> Ignore, denied |-> FALSE,
   outcome |-> NoOutcome, resolved |-> FALSE, raised |-> FALSE, url |-> "none",
   before |-> << >>, prev |-> "none", task |-> Fresh, ok |-> TRUE,
   escaped |-> FALSE, met |-> {}]

\* ACTION_REACTIONS: two emojis for each name of ACTION_NAMES
ACTION_REACTIONS == [a \in {Hug, Slap} |-> << "r1", "r2" >>]

\* ACTION_REACTIONS.get(action, [])[:MAX_REACTIONS]
Reactions(action) ==
  IF action \in DOMAIN ACTION_REACTIONS
  THEN SubSeq(ACTION_REACTIONS[action], 1,
              IF MAX_REACTIONS < Len(ACTION_REACTIONS[action])
              THEN MAX_REACTIONS ELSE Len(ACTION_REACTIONS[action]))
  ELSE << >>

(***************************************************************************)
(* The messages the specifications below let arrive.                       *)
(***************************************************************************)
Text(author, guild, content) ==
  [author |-> author, bot |-> FALSE, private |-> FALSE, guild |-> guild,
   content |-> content]

Mention1 == << "<", "@", "1", ">" >>

Mention2 == << "<", "@", "2", ">" >>

Bob == << "b", "o", "b" >>

\* an action the pattern accepts under re.IGNORECASE and ACTION_NAMES lacks
LongSlap == << LongS, "l", "a", "p" >>

\* member 1 uses two actions in guild 1
RateMessages ==
  { Text(1, 1, Hug \o << " " >> \o Mention2),
    Text(1, 1, Slap \o << "@" >> \o << "A", "m", "y" >>) }

\* both members use both actions in guild 1; in guild 2 member 2 writes slap
\* with a long s
MediaMessages ==
  { Text(1, 1, Hug \o << " " >> \o Mention2),
    Text(2, 1, Hug \o << "@" >> \o Bob),
    Text(1, 1, Slap \o << " " >> \o Mention2),
    Text(2, 1, Slap \o << "@" >> \o Mention1),
    Text(2, 2, LongSlap \o << " " >> \o Bob) }

\* both members use both actions in guild 1
RepeatMessages ==
  { Text(1, 1, Hug \o << " " >> \o Mention2),
    Text(2, 1, Hug \o << "@" >> \o Bob),
    Text(1, 1, Slap \o << " " >> \o Mention2),
    Text(2, 1, Slap \o << "@" >> \o Mention1) }

\* the texts "<prefix><action><separator><token>": the action of ACTION_NAMES
\* and the letters it is written with, the separator of the two surface forms
\* and the token that names the target
SurfaceForms ==
  [ prefix : { << >>, << "d", "s", "o", " " >>, << "D", "s", "O", " ", " " >> },
    action : { Hug },
    text   : { Hug, << "H", "u", "G" >> },
    sep    : { << "@" >>, << " " >>, << " ", "@" >> },
    token  : { Mention1, << "<", "@", "!", "2", ">" >>, << "2" >>, Bob,
               << "B", "O" >>, << "b", "o", "b", "#", "7" >>,
               << "1", "u", "p" >>, << "A", "m", "y" >>, << "z", "e", "d" >> } ]
    \cup
  [ prefix : { << >>, << "d", "s", "o", " " >> },
    action : { Slap },
    text   : { Slap, << "S", "L", "a", "p" >> },
    sep    : { << "@" >>, << " " >>, << " ", "@" >> },
    token  : { Mention1, << "2" >>, << "1", "u", "p" >> } ]

\* the text of a surface form
Compose(f) == f.prefix \o f.text \o f.sep \o f.token

\* texts that are no action command at all, and messages the guards drop
OtherMessages ==
  { Text(1, 1, << "d", "s", "o", " ", "f", ".", "c" >>),
    Text(2, 1, << "D", "S", "O", " ", "F", "C" >>),
    Text(1, 1, << "d", "s", "o", " ", "f", ".", "c", "s" >>),
    Text(1, 1, Hug),
    Text(1, 1, << " " >> \o Hug \o << " ", " ", "b", "o", "b", " " >>),
    Text(1, 1, LongSlap \o << "@" >> \o Bob),
    Text(1, 1, << >>),
    [Text(1, 1, Hug \o << " " >> \o Bob) EXCEPT !.bot = TRUE],
    [Text(1, 0, Hug \o << " " >> \o Bob) EXCEPT !.private = TRUE] }

SurfaceMessages == {Text(1, 1, Compose(f)) : f \in SurfaceForms} \cup OtherMessages

Then == << "t", "h", "e", "n" >>

\* the texts "<first> <token> then <action> then <action> ...": a first
\* command and the actions chained after it
ChainForms ==
  [ first : { Hug },
    token : { Mention2, Bob },
    rest  : { << >>, << Slap >>, << Slap, Hug >> } ]

RECURSIVE ChainTail(_)
ChainTail(rest) ==
  IF rest = << >> THEN << >>
  ELSE << " " >> \o Then \o << " " >> \o Head(rest) \o ChainTail(Tail(rest))

\* the text of a chain
ComposeChain(f) == f.first \o << " " >> \o f.token \o ChainTail(f.rest)

ChainMessages == {Text(1, 1, ComposeChain(f)) : f \in ChainForms}

\* words that are no name of ACTION_NAMES
UnknownActions ==
  { << "w", "i", "n", "k" >>, << "h", "u", "g", "s" >> }

\* the texts "<prefix><word><separator><token>" with such a word
UnknownForms ==
  [ prefix : { << >>, << "d", "s", "o", " " >> },
    action : UnknownActions,
    sep    : { << "@" >>, << " " >> },
    token  : { Mention2 } ]

UnknownMessages ==
  {Text(1, 1, f.prefix \o f.action \o f.sep \o f.token) : f \in UnknownForms}

Zed == << "z", "e", "d" >>

\* commands whose target names nobody in the guild
UnresolvedMessages ==
  { Text(1, 1, c) :
      c \in { Hug \o << " " >> \o Zed,
              Hug \o << "@" >> \o Zed,
              Hug \o << " ", "<", "@", "9", ">" >>,
              Slap \o << " ", "9" >>,
              Slap \o << "@", "9" >> \o Zed,
              << "d", "s", "o", " " >> \o Slap \o << "@", "<", "@", "!", "9", ">" >>,
              Hug \o << " ", "@" >> \o Bob } }
    \cup { Text(2, 1, Slap \o << "@" >> \o Zed) }

\* commands that dispatch
ParseCommands ==
  { Text(1, 1, Hug \o << " " >> \o Mention2),
    Text(2, 1, Slap \o << "@" >> \o Mention1) }

\* messages of a bot, messages in a private channel and messages without
\* content
GuardMessages ==
  { [m EXCEPT !.bot = TRUE] : m \in ParseCommands }
    \cup { [m EXCEPT !.private = TRUE, !.guild = 0] : m \in ParseCommands }
    \cup { [Text(1, 1, << "d", "s", "o", " ", "f", "c" >>) EXCEPT !.bot = TRUE] }
    \cup { Text(1, 1, << >>) }

HelpMessages ==
  { Text(1, 1, << "d", "s", "o", " ", "f", ".", "c" >>),
    Text(2, 1, << "D", "S", "O", " ", " ", "F", "C", "." >>),
    Text(1, 1, << " ", "d", "s", "o", " ", "f", "c", " " >>) }

ParseMessages ==
  ChainMessages \cup UnknownMessages \cup UnresolvedMessages
    \cup ParseCommands \cup GuardMessages \cup HelpMessages

AllMessages ==
  RateMessages \cup MediaMessages \cup RepeatMessages
    \cup SurfaceMessages \cup ParseMessages

(***************************************************************************)
(* handle_message_event up to its first await.                             *)
(***************************************************************************)
\* a pattern block that calls send_owo_style whether or not a member was found
PatternBlockAnyTarget(m, hasGuild) ==
  IF m.matched
  THEN [kind |-> "dispatch", action |-> Lower(m.action),
        member |-> resolve_member(hasGuild, m.target)]
  ELSE [kind |-> "ignore", action |-> << >>, member |-> 0]

\* one of the two pattern blocks: the match, the lowered action, the member
PatternBlock(m, hasGuild) ==
  IF m.matched /\ resolve_member(hasGuild, m.target) # NoMember
  THEN [kind |-> "dispatch", action |-> Lower(m.action),
        member |-> resolve_member(hasGuild, m.target)]
  ELSE Ignore

\* a handler in which the help phrase is one more action of the pipeline,
\* sent through send_owo_style to the author
RouteHelpAsAction(msg) ==
  LET content == Strip(msg.content)
      first == PatternBlock(ACTION_PATTERN_NO_SPACE(content), TRUE)
      second == PatternBlock(ACTION_PATTERN_SPACE(content), TRUE)
  IN  IF Len(msg.content) = 0 \/ msg.bot \/ msg.private THEN Ignore
      ELSE IF HELP_PATTERN(Lower(content))
      THEN [kind |-> "dispatch", action |-> << "f", "c" >>, member |-> msg.author]
      ELSE IF first.kind = "dispatch" THEN first
      ELSE second

\* a handler without the guard on the author: bots are answered too
RouteBotsAnswered(msg) ==
  LET content == Strip(msg.content)
      first == PatternBlock(ACTION_PATTERN_NO_SPACE(content), TRUE)
      second == PatternBlock(ACTION_PATTERN_SPACE(content), TRUE)
  IN  IF Len(msg.content) = 0 \/ msg.private THEN Ignore
      ELSE IF HELP_PATTERN(Lower(content))
      THEN [kind |-> "help", action |-> << >>, member |-> NoMember]
      ELSE IF first.kind = "dispatch" THEN first
      ELSE second

\* what handle_message_event does with a message: nothing, the help listing,
\* or send_owo_style(channel, author, member, action)
Route(msg) ==
  LET content == Strip(msg.content)
      first == PatternBlock(ACTION_PATTERN_NO_SPACE(content), TRUE)
      second == PatternBlock(ACTION_PATTERN_SPACE(content), TRUE)
  IN  IF Len(msg.content) = 0 \/ msg.bot \/ msg.private THEN Ignore
      ELSE IF HELP_PATTERN(Lower(content))
      THEN [kind |-> "help", action |-> << >>, member |-> NoMember]
      ELSE IF first.kind = "dispatch" THEN first
      ELSE second

\* Route, computed once for every message of the model
RouteTable == [m \in AllMessages |-> Route(m)]

\* the awaits of handle_message_event and send_owo_style that sit in a
\* try/except Exception of their own: the cooldown notice (1106-1109), the
\* resolver call (1115-1126), the header and caption (1138-1142), the GIF
\* (1145-1162), each add_reaction (1175-1178, 1181-1184), the help embed
\* (1240-1243) and the plain listing (1244-1245)
GuardedAwaits ==
  {"deny_send", "choose_gif", "send_text", "send_image", "react", "help_send",
   "help_plain"}

\* on_message: whether an exception raised by handle_message_event leaves
\* it; try/except Exception prints the exception and returns
on_message(raised) == FALSE

\* an await whose exception nothing catches
EscapedUncaught(site, ok) == ~ok

\* whether the exception of an await that raised (~ok) leaves on_message
Escaped(site, ok) == on_message(~ok /\ site \notin GuardedAwaits)

\* every URL of the list is in the recent list
AllRecent(gifs, recent) == \A k \in 1..Len(gifs) : InSeq(gifs[k], recent)

\* the history saturated after a step that left recent as the list of guild
\* g: a resolution of action a (resolved) ends the record of every other
\* action, and every action whose bundled URLs are all recent now is recorded
SaturatedAfter(sat, g, a, resolved, recent) ==
  IF DOMAIN sat = {} THEN sat
  ELSE [sat EXCEPT ![g] =
          (IF resolved THEN sat[g] \cap {a} ELSE sat[g])
            \cup {b \in DOMAIN FALLBACK_GIFS : AllRecent(FALLBACK_GIFS[b], recent)}]

\* how many URLs of the candidate list are not in the recent list
FreshCount(gifs, recent) ==
  Cardinality({gifs[k] : k \in {i \in 1..Len(gifs) : ~InSeq(gifs[i], recent)}})

\* the coroutines of the bag that await Tenor in the guild
Waiting(bag, guild) ==
  {b \in BagToSet(bag) : b.pc = "tenor_wait" /\ b.guild = guild}

\* the history overlapped after the resolution of coroutine t has ended with
\* url, the coroutines of bag being in flight beside it: each one that awaits
\* Tenor in the guild has met url, and whether the candidate list of t held
\* two URLs or more that were not in recent
OverlappedAfter(ov, t, bag, gifs, recent, url) ==
  IF DOMAIN ov = {} THEN ov
  ELSE [ov EXCEPT ![t.guild] =
          {p \in @ : p[1] # t}
            \cup {<< b, url, FreshCount(gifs, recent) >= 2 >> :
                     b \in Waiting(bag, t.guild)}]

\* what overlapped holds for coroutine t: the URLs, each with the flag
Met(ov, t) ==
  IF DOMAIN ov = {} THEN {}
  ELSE {<< p[2], p[3] >> : p \in {q \in ov[t.guild] : q[1] = t}}

\* the locals of send_owo_style at its first await: after the cooldown check
\* and, when no Tenor request is awaited, after the resolver
Started(msg, r, rem, key, res) ==
  LET t == [Fresh EXCEPT !.author = msg.author, !.target = r.member,
                         !.action = r.action, !.guild = msg.guild]
  IN  IF rem > 0 THEN [t EXCEPT !.pc = "deny_send"]
      ELSE IF key THEN [t EXCEPT !.pc = "tenor_wait"]
      ELSE [t EXCEPT !.pc = "send_text", !.chosen = ChosenAfter(r.action, res)]

\* a cooldown block that records the use whatever the check says
CooldownAlwaysRecorded(cd, user, action, rem, t) ==
  set_cooldown(cd, user, action, t)

\* _COOLDOWNS after the cooldown block of send_owo_style
CooldownAfterCheck(cd, user, action, rem, t) ==
  IF rem > 0 THEN cd ELSE set_cooldown(cd, user, action, t)

\* the history of accepted invocations after the cooldown block
AcceptedAfterCheck(acc, user, action, rem, t) ==
  IF rem > 0 THEN acc
  ELSE [k \in DOMAIN acc \cup {<< user, action >>} |->
          IF k = << user, action >>
          THEN (IF k \in DOMAIN acc THEN acc[k] ELSE << >>) \o << t >>
          ELSE acc[k]]

\* send_owo_style from its entry to its first await, given the route r of the
\* message, the remaining cooldown rem, the resolver's result res when no
\* Tenor request is awaited, and whether the resolver ran (resolved)
Begun(msg, n, r, rem, res, resolved) ==
  /\ BagCardinality(tasks) < n
  /\ ev' = [NoEvent EXCEPT !.op = "Receive", !.msg = msg, !.route = r,
                           !.denied = (r.kind = "dispatch" /\ rem > 0),
                           !.resolved = resolved,
                           !.raised = (resolved /\ res.raised),
                           !.url = IF resolved THEN res.url ELSE "none",
                           !.before = IF resolved THEN RECENT_GIFS[msg.guild]
                                      ELSE << >>,
                           !.prev = IF resolved THEN returned[msg.guild]
                                    ELSE "none"]
  /\ returned' = IF resolved /\ ~res.raised
                 THEN [returned EXCEPT ![msg.guild] = res.url]
                 ELSE returned
  /\ IF r.kind = "ignore"
     THEN UNCHANGED << COOLDOWNS, RECENT_GIFS, tasks, accepted >>
     ELSE IF r.kind = "help"
     THEN /\ tasks' = Put(tasks, [Fresh EXCEPT !.pc = "help_send",
                                               !.author = msg.author,
                                               !.guild = msg.guild])
          /\ UNCHANGED << COOLDOWNS, RECENT_GIFS, accepted >>
     ELSE /\ tasks' = Put(tasks, Started(msg, r, rem, TENOR_API_KEY, res))
          /\ COOLDOWNS' = CooldownAfterCheck(COOLDOWNS, msg.author, r.action, rem, now)
          /\ accepted' = AcceptedAfterCheck(accepted, msg.author, r.action, rem, now)
          /\ RECENT_GIFS' = IF resolved
                            THEN [RECENT_GIFS EXCEPT ![msg.guild] = res.recent]
                            ELSE RECENT_GIFS
  /\ saturated' = IF resolved
                  THEN SaturatedAfter(saturated, msg.guild, r.action, TRUE, res.recent)
                  ELSE saturated
  /\ UNCHANGED << now, TENOR_API_KEY, elsewhere, overlapped >>

\* the cooldown check and the resolver call of send_owo_style
Checked(msg, n, r, rem, res) ==
  Begun(msg, n, r, rem, res, r.kind = "dispatch" /\ rem = 0 /\ ~TENOR_API_KEY)

\* handle_message_event after the patterns have been tried
Handled(msg, n, r) ==
  Checked(msg, n, r,
          get_cooldown_remaining(COOLDOWNS, msg.author, r.action, now),
          choose_gif_for_action(RECENT_GIFS[msg.guild], r.action, FALSE, NoOutcome))

\* A message arrives and handle_message_event runs to its first await; at
\* most n coroutines are in flight.
Receive(msg, n) == Handled(msg, n, RouteTable[msg])

\* The Tenor request of a coroutine ends and choose_gif_for_action runs to
\* its end.
TenorReturn(t, outcome) ==
  /\ BagIn(t, tasks)
  /\ t.pc = "tenor_wait"
  /\ LET res == choose_gif_for_action(RECENT_GIFS[t.guild], t.action, TRUE, outcome)
     IN  /\ tasks' = Put(Take(tasks, t),
                         [t EXCEPT !.pc = "send_text",
                                   !.chosen = ChosenAfter(t.action, res)])
         /\ RECENT_GIFS' = [RECENT_GIFS EXCEPT ![t.guild] = res.recent]
         /\ ev' = [NoEvent EXCEPT !.op = "TenorReturn", !.outcome = outcome,
                                  !.resolved = TRUE, !.raised = res.raised,
                                  !.url = res.url, !.before = RECENT_GIFS[t.guild],
                                  !.prev = returned[t.guild], !.task = t,
                                  !.ok = ~tenor_request(outcome).raised,
                                  !.escaped = Escaped("choose_gif",
                                                      ~tenor_request(outcome).raised),
                                  !.met = Met(overlapped, t)]
         /\ returned' = IF res.raised THEN returned
                        ELSE [returned EXCEPT ![t.guild] = res.url]
  /\ saturated' = SaturatedAfter(saturated, t.guild, t.action, TRUE,
                                 RECENT_GIFS'[t.guild])
  /\ overlapped' = OverlappedAfter(overlapped, t, Take(tasks, t),
                                   Candidates(t.action,
                                              tenor_guarded(TRUE, outcome).gifs),
                                   RECENT_GIFS[t.guild], ev'.url)
  /\ UNCHANGED << now, COOLDOWNS, TENOR_API_KEY, elsewhere, accepted >>

\* channel.send of the header and the caption returns or raises.
SendText(t, ok) ==
  /\ BagIn(t, tasks)
  /\ t.pc = "send_text"
  /\ tasks' = Put(Take(tasks, t), [t EXCEPT !.pc = "send_image", !.sent_text = ok])
  /\ ev' = [NoEvent EXCEPT !.op = "SendText", !.ok = ok,
                           !.escaped = Escaped("send_text", ok)]
  /\ UNCHANGED << now, COOLDOWNS, RECENT_GIFS, TENOR_API_KEY,
                  elsewhere, saturated, overlapped, accepted, returned >>

\* whether the reaction loop has a message to react to and a reaction to add
HasReactions(t, ok) == (ok \/ t.sent_text) /\ Len(Reactions(t.action)) > 0

\* the message the reaction loop of a coroutine reacts to: the GIF message
\* the bot sent ("sent_image") or else the text message the bot sent
\* ("sent_text"); the message that triggered the command ("message") is not
\* handed to send_owo_style
ReactionTarget(t) == IF t.sent_image THEN "sent_image" ELSE "sent_text"

\* channel.send of the GIF (the embed, or the plain URL when the embed could
\* not be built) returns or raises; add_recent_gif follows at once.
SendImage(t, ok) ==
  /\ BagIn(t, tasks)
  /\ t.pc = "send_image"
  /\ tasks' = IF HasReactions(t, ok)
              THEN Put(Take(tasks, t),
                       [t EXCEPT !.pc = "react", !.sent_image = ok, !.k = 1,
                                 !.chosen = "none"])
              ELSE Take(tasks, t)
  /\ RECENT_GIFS' = [RECENT_GIFS EXCEPT ![t.guild] =
                       add_recent_gif(RECENT_GIFS[t.guild], t.chosen)]
  /\ ev' = [NoEvent EXCEPT !.op = "SendImage", !.task = t, !.ok = ok,
                           !.escaped = Escaped("send_image", ok)]
  /\ saturated' = SaturatedAfter(saturated, t.guild, t.action, FALSE,
                                 RECENT_GIFS'[t.guild])
  /\ UNCHANGED << now, COOLDOWNS, TENOR_API_KEY, elsewhere, overlapped, accepted,
                  returned >>

\* one add_reaction, on the GIF message or else on the text message, returns
\* or raises: the loop goes on either way.
React(t, ok) ==
  /\ BagIn(t, tasks)
  /\ t.pc = "react"
  /\ tasks' = IF t.k >= Len(Reactions(t.action)) THEN Take(tasks, t)
              ELSE Put(Take(tasks, t), [t EXCEPT !.k = t.k + 1])
  /\ ev' = [NoEvent EXCEPT !.op = "React", !.escaped = Escaped("react", ok)]
  /\ UNCHANGED << now, COOLDOWNS, RECENT_GIFS, TENOR_API_KEY,
                  elsewhere, saturated, overlapped, accepted, returned >>

\* a cooldown block without its return: after the notice the response is
\* sent all the same
DenySendNoReturn(t, ok) ==
  /\ BagIn(t, tasks)
  /\ t.pc = "deny_send"
  /\ tasks' = Put(Take(tasks, t), [t EXCEPT !.pc = "send_text"])
  /\ ev' = [NoEvent EXCEPT !.op = "DenySend", !.ok = ok,
                           !.escaped = Escaped("deny_send", ok)]
  /\ UNCHANGED << now, COOLDOWNS, RECENT_GIFS, TENOR_API_KEY,
                  elsewhere, saturated, overlapped, accepted, returned >>

\* channel.send of the cooldown notice returns or raises: send_owo_style
\* returns either way.
DenySend(t, ok) ==
  /\ BagIn(t, tasks)
  /\ t.pc = "deny_send"
  /\ tasks' = Take(tasks, t)
  /\ ev' = [NoEvent EXCEPT !.op = "DenySend", !.ok = ok,
                           !.escaped = Escaped("deny_send", ok)]
  /\ UNCHANGED << now, COOLDOWNS, RECENT_GIFS, TENOR_API_KEY,
                  elsewhere, saturated, overlapped, accepted, returned >>

\* channel.send of the help embed returns or raises.
HelpSend(t, ok) ==
  /\ BagIn(t, tasks)
  /\ t.pc = "help_send"
  /\ tasks' = IF ok THEN Take(tasks, t)
              ELSE Put(Take(tasks, t), [t EXCEPT !.pc = "help_plain"])
  /\ ev' = [NoEvent EXCEPT !.op = "HelpSend", !.ok = ok,
                           !.escaped = Escaped("help_send", ok)]
  /\ UNCHANGED << now, COOLDOWNS, RECENT_GIFS, TENOR_API_KEY,
                  elsewhere, saturated, overlapped, accepted, returned >>

\* channel.send of the plain-text listing returns or raises: the handler
\* returns either way.
HelpPlain(t, ok) ==
  /\ BagIn(t, tasks)
  /\ t.pc = "help_plain"
  /\ tasks' = Take(tasks, t)
  /\ ev' = [NoEvent EXCEPT !.op = "HelpPlain", !.ok = ok,
                           !.escaped = Escaped("help_plain", ok)]
  /\ UNCHANGED << now, COOLDOWNS, RECENT_GIFS, TENOR_API_KEY,
                  elsewhere, saturated, overlapped, accepted, returned >>

\* a second of wall-clock time passes
Tick(maxTime) ==
  /\ now < maxTime
  /\ now' = now + 1
  /\ ev' = [NoEvent EXCEPT !.op = "Tick"]
  /\ UNCHANGED << COOLDOWNS, RECENT_GIFS, TENOR_API_KEY,
                  elsewhere, saturated, overlapped, tasks, accepted, returned >>

\* the awaits of send_owo_style after the resolver
Resume ==
  \/ \E t \in BagToSet(tasks), ok \in BOOLEAN : SendText(t, ok)
  \/ \E t \in BagToSet(tasks), ok \in BOOLEAN : SendImage(t, ok)
  \/ \E t \in BagToSet(tasks), ok \in BOOLEAN : React(t, ok)
  \/ \E t \in BagToSet(tasks), ok \in BOOLEAN : DenySend(t, ok)

\* the initial values of the variables a specification does not use
Untouched ==
  /\ saturated = << >>
  /\ overlapped = << >>
  /\ posted_memes = << >>
  /\ delivered = << >>
  /\ controls = << >>

\* the state after the module is imported; key tells whether TENOR_API_KEY is set
InitWith(key) ==
  /\ now = StartTime
  /\ COOLDOWNS = << >>
  /\ RECENT_GIFS = [g \in GuildIds |-> << >>]
  /\ TENOR_API_KEY = key
  /\ tasks = EmptyBag
  /\ accepted = << >>
  /\ returned = [g \in GuildIds |-> "none"]
  /\ Untouched
  /\ ev = NoEvent

(***************************************************************************)
(* Spec: the rate limiter.  Member 1 sends action commands in one guild,   *)
(* no Tenor key is set, and the clock runs.                                *)
(***************************************************************************)
Init == InitWith(FALSE)

Next ==
  \/ \E msg \in RateMessages : Receive(msg, RateTasks)
  \/ Resume
  \/ Tick(StartTime + RateHorizon)

Spec == Init /\ [][Next]_vars

(***************************************************************************)
(* SpecConc: the same, with coroutines of the same member in flight        *)
(* together.                                                               *)
(***************************************************************************)
NextConc ==
  \/ \E msg \in RateMessages : Receive(msg, ConcTasks)
  \/ Resume
  \/ Tick(StartTime + ConcHorizon)

SpecConc == Init /\ [][NextConc]_vars

(***************************************************************************)
(* SpecMedia: the GIF resolver.  The process starts with or without a      *)
(* Tenor key; both members use the actions, in two guilds; the clock       *)
(* stands still, so each (user, action) is accepted once.                  *)
(***************************************************************************)
MediaTasks == 1

InitMedia == \E key \in BOOLEAN : InitWith(key)

NextMedia ==
  \/ \E msg \in MediaMessages : Receive(msg, MediaTasks)
  \/ \E t \in BagToSet(tasks), outcome \in TenorOutcomes : TenorReturn(t, outcome)
  \/ Resume

SpecMedia == InitMedia /\ [][NextMedia]_vars

(***************************************************************************)
(* SpecRepeat: the recent list under interleaving.  No Tenor key is set;   *)
(* both members use both actions in guild 1 while earlier responses are    *)
(* still being sent.                                                       *)
(***************************************************************************)
RepeatTasks == 3

NextRepeat ==
  \/ \E msg \in RepeatMessages : Receive(msg, RepeatTasks)
  \/ Resume

SpecRepeat == Init /\ [][NextRepeat]_vars

(***************************************************************************)
(* SpecSurface: the parser.  Member 1 writes every text of                 *)
(* SurfaceMessages, one message being handled at a time.                   *)
(***************************************************************************)
SurfaceTasks == 1

SurfaceHorizon == 1

NextSurface ==
  \/ \E msg \in SurfaceMessages : Receive(msg, SurfaceTasks)
  \/ Resume
  \/ \E t \in BagToSet(tasks), ok \in BOOLEAN : HelpSend(t, ok)
  \/ \E t \in BagToSet(tasks), ok \in BOOLEAN : HelpPlain(t, ok)
  \/ Tick(StartTime + SurfaceHorizon)

SpecSurface == Init /\ [][NextSurface]_vars

(***************************************************************************)
(* The rate limiter.                                                       *)
(***************************************************************************)
\* the latest step handled an action command, and the cooldown check ran
Invoked == ev.op = "Receive" /\ ev.route.kind = "dispatch"

\* the (user, action) of the invocation of the latest step
InvokedKey == << ev.msg.author, ev.route.action >>

\* the times at which key was accepted
AcceptedTimes(key) == IF key \in DOMAIN accepted THEN accepted[key] ELSE << >>

\* the times at which key was accepted before the invocation of the latest step
Earlier(key) ==
  IF Invoked /\ ~ev.denied /\ key = InvokedKey
  THEN SubSeq(AcceptedTimes(key), 1, Len(AcceptedTimes(key)) - 1)
  ELSE AcceptedTimes(key)

\* the times at which the user was accepted, under any action, before the
\* invocation of the latest step
EarlierOfUser(user) ==
  UNION { {Earlier(k)[i] : i \in 1..Len(Earlier(k))} :
          k \in {j \in DOMAIN accepted : j[1] = user} }

AcceptedOfUser(user) ==
  UNION { {<< k, i >> : i \in 1..Len(accepted[k])} :
          k \in {j \in DOMAIN accepted : j[1] = user} }

\* those of them inside the trailing 8-second window
InBurstWindow(user) ==
  {e \in AcceptedOfUser(user) : accepted[e[1]][e[2]] > now - 8}

\* C3: no user has more than 5 accepted invocations inside the trailing
\* 8-second window: a 6th one is denied.
C3_BurstLimit ==
  \A k \in DOMAIN accepted : Cardinality(InBurstWindow(k[1])) <= 5

ResolvedAction == IF ev.op = "Receive" THEN ev.route.action ELSE ev.task.action

ResolvedGuild == IF ev.op = "Receive" THEN ev.msg.guild ELSE ev.task.guild

\* the URLs of a list
Urls(arr) == {arr[i] : i \in 1..Len(arr)}

\* every URL of the model
AllUrls ==
  UNION {Urls(FALLBACK_GIFS[a]) : a \in DOMAIN FALLBACK_GIFS}
    \cup Urls(GENERIC_FALLBACK_GIFS)
    \cup UNION {Urls(o.urls) : o \in TenorOutcomes}

\* the candidate list of the resolution of the latest step: the bundled list
\* when no request was made, else what the request's outcome leaves
ResolvedCandidates ==
  Candidates(ResolvedAction,
             IF ev.op = "TenorReturn" /\ ev.outcome.kind = "ok"
             THEN ev.outcome.urls ELSE << >>)

\* the candidates that were not in the guild's recent list, by position
FreshPositions ==
  {i \in 1..Len(ResolvedCandidates) : ~InSeq(ResolvedCandidates[i], ev.before)}

\* C5: choose_gif_for_action never raises: with no key, and with a key
\* whatever the Tenor request does (timeout, network exception, non-200,
\* malformed payload, empty result, results), it returns a URL or None.
C5_ResolutionNeverRaises ==
  ev.resolved => (~ev.raised /\ ev.url \in AllUrls \cup {NoURL})

\* the payload was malformed after URLs had been collected from it, and a URL
\* of the bundled list was returned
C5_Witness ==
  /\ ev.op = "TenorReturn"
  /\ ev.outcome.kind = "malformed"
  /\ Len(ev.outcome.urls) > 0
  /\ ev.url \in Urls(FallbackGet(ev.task.action))

\* C6: the resolver returns the first candidate, in list order, that is not in
\* the guild's recent list, or the first candidate when all of them are; and
\* the URL it returned is then at the head of the guild's recent list.
C6_FirstFreshElseFirst ==
  (ev.resolved /\ Len(ResolvedCandidates) > 0) =>
    /\ ev.url = IF FreshPositions = {} THEN ResolvedCandidates[1]
                ELSE ResolvedCandidates[CHOOSE i \in FreshPositions :
                                          \A j \in FreshPositions : i <= j]
    /\ Len(RECENT_GIFS[ResolvedGuild]) > 0
    /\ RECENT_GIFS[ResolvedGuild][1] = ev.url

\* every candidate was recent, a candidate other than the first one was the
\* most recent, and the first candidate was returned
C6_Witness ==
  /\ ev.resolved
  /\ Len(ResolvedCandidates) > 1
  /\ FreshPositions = {}
  /\ ev.before[1] # ResolvedCandidates[1]
  /\ ev.url = ResolvedCandidates[1]

\* C7: in every state, under every interleaving of the coroutines, the recent
\* list of each guild holds at most RECENT_GIF_RETENTION URLs.
C7_RecentBounded ==
  \A g \in GuildIds : Len(RECENT_GIFS[g]) <= RECENT_GIF_RETENTION

\* with other coroutines in flight, a URL that was not recent is put on a
\* full recent list, whose oldest URL goes
C7_Witness ==
  /\ ev.resolved
  /\ BagCardinality(tasks) > 1
  /\ Len(ev.before) = RECENT_GIF_RETENTION
  /\ ~InSeq(ev.url, ev.before)
  /\ RECENT_GIFS[ResolvedGuild] =
       << ev.url >> \o SubSeq(ev.before, 1, RECENT_GIF_RETENTION - 1)

\* C8: when the candidate list has two distinct URLs or more and one candidate
\* at least is not in the guild's recent list, the resolution does not return
\* the URL that the resolution before it returned in the same guild.
C8_NoConsecutiveRepeat ==
  (/\ ev.resolved
   /\ Cardinality(Urls(ResolvedCandidates)) >= 2
   /\ FreshPositions # {}
   /\ ev.prev # NoURL) =>
    ev.url # ev.prev

\* the request succeeded with at least MIN_TENOR_GIFS distinct URLs
EnoughResults ==
  /\ ev.op = "TenorReturn"
  /\ ev.outcome.kind = "ok"
  /\ Cardinality(Urls(ev.outcome.urls)) >= MIN_TENOR_GIFS

\* C9, as the code has it: the returned URL is one of the search results when
\* the search succeeded with at least three distinct URLs; in every other case
\* (no key, failure, no result, one or two distinct results) it is a URL of
\* the bundled list of the action, or the first URL of the generic list when
\* the action has no bundled list.
C9_FallbackTiers ==
  ev.resolved =>
    IF EnoughResults THEN ev.url \in Urls(ev.outcome.urls)
    ELSE IF Len(FallbackGet(ResolvedAction)) > 0
    THEN ev.url \in Urls(FallbackGet(ResolvedAction))
    ELSE ev.url = GENERIC_FALLBACK_GIFS[1]

\* C9 as stated: the bundled list is the source when the search fails, returns
\* nothing or is not configured, the generic list when the bundled list is
\* empty too, and the returned URL is a search result whenever the search
\* succeeded with results.
C9_AnyResultIsUsed ==
  ev.resolved =>
    IF ev.op = "TenorReturn" /\ ev.outcome.kind = "ok" /\ Len(ev.outcome.urls) > 0
    THEN ev.url \in Urls(ev.outcome.urls)
    ELSE IF Len(FallbackGet(ResolvedAction)) > 0
    THEN ev.url \in Urls(FallbackGet(ResolvedAction))
    ELSE ev.url \in Urls(GENERIC_FALLBACK_GIFS)

\* the search succeeded with two distinct URLs and a URL of the bundled list
\* was returned
C9_Witness ==
  /\ ev.op = "TenorReturn"
  /\ ev.outcome.kind = "ok"
  /\ Cardinality(Urls(ev.outcome.urls)) = 2
  /\ ev.url \in Urls(FallbackGet(ev.task.action))
  /\ ev.url \notin Urls(ev.outcome.urls)

(***************************************************************************)
(* The parser.                                                             *)
(***************************************************************************)
\* C10: for every action A and every token t that resolves to a member M, the
\* texts "A@t", "A t" and "A @t", with or without the dso prefix and in any
\* letter case, written in a guild channel by a user who is no bot, dispatch
\* A from the author to M.
C10_SurfaceFormsDispatch ==
  \A f \in SurfaceForms :
    (/\ ev.op = "Receive"
     /\ ~ev.msg.bot
     /\ ~ev.msg.private
     /\ ev.msg.content = Compose(f)
     /\ resolve_member(TRUE, f.token) # NoMember) =>
      ev.route = [kind |-> "dispatch", action |-> f.action,
                  member |-> resolve_member(TRUE, f.token)]

\* the members a token names: those whose display name or username equals the
\* token, letter case aside
NamedBy(token) ==
  {k \in 1..Len(Members) :
     \/ Lower(Members[k].display_name) = Lower(token)
     \/ Lower(Members[k].name) = Lower(token)}

\* C24: for every action A and every token t without whitespace that equals,
\* letter case aside, the display name or the username of a member M, names
\* that start with a digit included, the text "A t" written in a guild
\* channel by a user who is no bot dispatches A from the author to M.
C24_NameTargetsDispatch ==
  \A f \in SurfaceForms : \A k \in NamedBy(f.token) :
    (/\ ev.op = "Receive"
     /\ ~ev.msg.bot
     /\ ~ev.msg.private
     /\ f.sep = << " " >>
     /\ ev.msg.content = Compose(f)) =>
      ev.route = [kind |-> "dispatch", action |-> f.action,
                  member |-> Members[k].id]

(***************************************************************************)
(* SpecResolve: resolve_member as a function of the guild's member list    *)
(* and the token.  Each step calls it once and records the call in ev.     *)
(***************************************************************************)
\* three members: the display name of Amy reads like the tag of bob, and the
\* username of the third is a number that is the id of Amy
Member_bob ==
  [id |-> 1, name |-> << "b", "o", "b" >>, discriminator |-> << "7" >>,
   display_name |-> << "B", "o" >>]

Member_amy ==
  [id |-> 2, name |-> << "a", "m", "y" >>, discriminator |-> << "3" >>,
   display_name |-> << "B", "o", "b", "#", "7" >>]

Member_two ==
  [id |-> 3, name |-> << "2" >>, discriminator |-> << "0" >>,
   display_name |-> << "b", "o", "b" >>]

\* guild.members in every order the client library may list them
MemberLists ==
  { l \in [1..3 -> {Member_bob, Member_amy, Member_two}] :
      l[1] # l[2] /\ l[2] # l[3] /\ l[1] # l[3] }

\* the tokens handed to resolve_member
ResolveTokens ==
  { << "<", "@", "1", ">" >>, << "<", "@", "!", "2", ">" >>,
    << "<", "@", "9", ">" >>, << "<", "@", "3", ">", "x" >>,
    << "2" >>, << "3" >>, << "9" >>,
    << "b", "o", "b", "#", "7" >>, << "B", "O", "B", "#", "7" >>,
    << "a", "m", "y", "#", "3" >>, << "2", "#", "0" >>,
    << "b", "o", "b" >>, << "b", "o" >>, << "A", "M", "Y" >>,
    << " ", "a", "m", "y", " " >>, << "z", "e", "d" >>, << >> }

\* one call of resolve_member
Resolve(members, hasGuild, tok) ==
  /\ ev' = [op |-> "resolve_member", members |-> members, hasGuild |-> hasGuild,
            token |-> tok, result |-> resolve_member_of(members, hasGuild, tok)]
  /\ UNCHANGED << now, COOLDOWNS, RECENT_GIFS, TENOR_API_KEY,
                  elsewhere, saturated, overlapped, tasks, accepted, returned >>

NextResolve ==
  \E members \in MemberLists, hasGuild \in BOOLEAN, tok \in ResolveTokens :
    Resolve(members, hasGuild, tok)

SpecResolve == Init /\ [][NextResolve]_vars

\* the latest step called resolve_member in a guild
Resolved == ev.op = "resolve_member" /\ ev.hasGuild

\* the first member of the list, in list order, that satisfies P
FirstMember(members, P(_)) ==
  LET hits == {k \in 1..Len(members) : P(members[k])}
  IN  IF hits = {} THEN NoMember
      ELSE members[CHOOSE k \in hits : \A j \in hits : k <= j].id

\* the four rules of the resolution order, each on its own
ByMention(members, token) ==
  IF MENTION_RE(token).matched
  THEN get_member_of(members, ToInt(MENTION_RE(token).id)) ELSE NoMember

ById(members, token) ==
  IF IsDigitString(token) THEN get_member_of(members, ToInt(token)) ELSE NoMember

ByTag(members, token) ==
  LET P(mem) == Combo(mem) = Lower(token)
  IN  FirstMember(members, P)

ByName(members, token) ==
  LET P(mem) == Lower(mem.display_name) = Lower(token) \/ Lower(mem.name) = Lower(token)
  IN  FirstMember(members, P)

\* the member found by the first rule that succeeds
FirstRule(members, token) ==
  IF ByMention(members, token) # NoMember THEN ByMention(members, token)
  ELSE IF ById(members, token) # NoMember THEN ById(members, token)
  ELSE IF ByTag(members, token) # NoMember THEN ByTag(members, token)
  ELSE ByName(members, token)

\* C11: resolve_member returns the member found by the first rule that
\* succeeds in the order mention, bare numeric id, exact tag, exact display
\* name or username; a member matching by tag wins over another member that
\* matches by display name or username only, whatever the order of the member
\* list; no match returns None.
C11_ResolutionOrder ==
  Resolved => ev.result = FirstRule(ev.members, Strip(ev.token))

(***************************************************************************)
(* SpecParse: what handle_message_event does with a text.  The process     *)
(* starts with or without a Tenor key; the two members write chains, words *)
(* that are no action, targets that name nobody, the help phrase and       *)
(* commands, and bots and private channels deliver commands too.  The      *)
(* clock stands still.                                                     *)
(***************************************************************************)
ParseTasks == 1

NextParse ==
  \/ \E msg \in ParseMessages : Receive(msg, ParseTasks)
  \/ \E t \in BagToSet(tasks), outcome \in TenorOutcomes : TenorReturn(t, outcome)
  \/ Resume
  \/ \E t \in BagToSet(tasks), ok \in BOOLEAN : HelpSend(t, ok)
  \/ \E t \in BagToSet(tasks), ok \in BOOLEAN : HelpPlain(t, ok)

SpecParse == InitMedia /\ [][NextParse]_vars

\* the calls of send_owo_style the latest step made, in order: handle_message_event
\* makes one call or none
Dispatched ==
  IF ev.op = "Receive" /\ ev.route.kind = "dispatch"
  THEN << [action |-> ev.route.action, member |-> ev.route.member] >>
  ELSE << >>

\* C12: a chain "A1 t then A2 then A3" dispatches the steps A1, A2, A3 in
\* that order, every step after the first reusing the target of the first.
C12_ChainDispatchesEveryStep ==
  \A f \in ChainForms :
    (ev.op = "Receive" /\ ev.msg = Text(1, 1, ComposeChain(f))) =>
      Dispatched = [i \in 1..(1 + Len(f.rest)) |->
                      [action |-> (<< f.first >> \o f.rest)[i],
                       member |-> resolve_member(TRUE, f.token)]]

\* C13: a word that is no known action is not rejected: the command
\* "<word> <target>" is dispatched as an action of that name.
C13_UnknownActionDispatched ==
  \A f \in UnknownForms :
    (ev.op = "Receive"
       /\ ev.msg = Text(1, 1, f.prefix \o f.action \o f.sep \o f.token)) =>
      Dispatched = << [action |-> f.action,
                       member |-> resolve_member(TRUE, f.token)] >>

\* whether a message passes the guards, is no help phrase, and is matched by
\* a command pattern whose target resolve_member finds nobody for
Unresolved(msg) ==
  LET content == Strip(msg.content)
      m1 == ACTION_PATTERN_NO_SPACE(content)
      m2 == ACTION_PATTERN_SPACE(content)
  IN  /\ Len(msg.content) > 0
      /\ ~msg.bot
      /\ ~msg.private
      /\ ~HELP_PATTERN(Lower(content))
      /\ m1.matched \/ m2.matched
      /\ m1.matched => resolve_member(TRUE, m1.target) = NoMember
      /\ m2.matched => resolve_member(TRUE, m2.target) = NoMember

\* the messages of the model with such a command
UnresolvedSet == {m \in AllMessages : Unresolved(m)}

HelpSet ==
  {m \in AllMessages :
     /\ Len(m.content) > 0
     /\ ~m.bot
     /\ ~m.private
     /\ HELP_PATTERN(Lower(Strip(m.content)))}

\* the coroutine a help message starts
HelpTask(msg) ==
  [Fresh EXCEPT !.pc = "help_send", !.author = msg.author, !.guild = msg.guild]

\* C15: a message matching the help phrase sends the static listing only: it
\* dispatches no action, is never denied by the cooldown, and neither its
\* handling nor the sends of the listing change the cooldown store or the
\* recent lists.
C15_HelpIndependent ==
  [][/\ (ev'.op = "Receive" /\ ev'.msg \in HelpSet) =>
          /\ ev'.route.kind = "help"
          /\ ~ev'.denied
          /\ ~ev'.resolved
          /\ tasks' = Put(tasks, HelpTask(ev'.msg))
          /\ UNCHANGED << COOLDOWNS, RECENT_GIFS, accepted, returned >>
     /\ ev'.op \in {"HelpSend", "HelpPlain"} =>
          /\ \A t \in BagToSet(tasks') : t.pc = "help_plain" \/ BagIn(t, tasks)
          /\ UNCHANGED << COOLDOWNS, RECENT_GIFS, accepted, returned >>]_vars

\* the help phrase arrives from a member whose cooldown on an action is
\* running, in a guild with a recent list
C15_Witness ==
  /\ ev.op = "Receive"
  /\ ev.msg \in HelpSet
  /\ get_cooldown_remaining(COOLDOWNS, ev.msg.author, Hug, now) > 0
  /\ RECENT_GIFS[ev.msg.guild] # << >>
  /\ \E t \in BagToSet(tasks) : t.pc = "help_send"

(***************************************************************************)
(* Denials and failures.                                                   *)
(***************************************************************************)
\* the locals of a coroutine that the cooldown check denied
DenyTask(msg, r) ==
  [Fresh EXCEPT !.pc = "deny_send", !.author = msg.author, !.target = r.member,
                !.action = r.action, !.guild = msg.guild]

\* C16: a cooldown denial aborts the invocation without raising: the step
\* that denies resolves no media and starts the denial notice only; the
\* notice is attempted once, and whether its send returns or raises the
\* coroutine ends there, no exception leaves the handler, and no caption,
\* GIF or reaction follows; the stores are left as they were.
C16_DenialAborts ==
  [][/\ (ev'.op = "Receive" /\ ev'.denied) =>
          /\ ~ev'.resolved
          /\ tasks' = Put(tasks, DenyTask(ev'.msg, ev'.route))
          /\ UNCHANGED << COOLDOWNS, RECENT_GIFS, accepted, returned >>
     /\ ev'.op = "DenySend" =>
          /\ \E t \in BagToSet(tasks) : t.pc = "deny_send" /\ tasks' = Take(tasks, t)
          /\ ~ev'.escaped
          /\ UNCHANGED << COOLDOWNS, RECENT_GIFS, accepted, returned >>
     /\ \A t \in BagToSet(tasks) :
          (t.pc = "deny_send" /\ ~BagIn(t, tasks')) => ev'.op = "DenySend"]_vars

\* the send of a denial notice raised and the coroutine has returned
C16_Witness ==
  /\ ev.op = "DenySend"
  /\ ~ev.ok
  /\ tasks = EmptyBag
  /\ get_cooldown_remaining(COOLDOWNS, 1, Hug, now) = 1

\* on_message is called with a command
ReceiveCommand == \E msg \in ParseCommands : Receive(msg, ParseTasks)

\* C17: nothing in message handling is fatal: whichever awaited call raises
\* (the Tenor request, the cooldown notice, the caption, the GIF, a reaction,
\* the help embed or the plain listing), no exception leaves on_message, and
\* after a call has raised the next command is handled still.
C17_NothingFatal ==
  /\ ~ev.escaped
  /\ ~ev.raised
  /\ (ev.op # "none" /\ ~ev.ok /\ BagCardinality(tasks) < ParseTasks) =>
       ENABLED ReceiveCommand

\* with a Tenor key set, the caption and the GIF of one response both failed
\* to send, and the coroutine has returned
C17_Witness ==
  /\ ev.op = "SendImage"
  /\ ~ev.ok
  /\ ~ev.task.sent_text
  /\ TENOR_API_KEY
  /\ ev.task.chosen \in Urls(FallbackGet(ev.task.action))
  /\ tasks = EmptyBag

(***************************************************************************)
(* Flair reactions.                                                        *)
(***************************************************************************)
\* C18: the flair reactions of a dispatched command are attached to the
\* message that triggered the command, and to no other message.
C18_FlairOnTrigger ==
  \A t \in BagToSet(tasks) : t.pc = "react" => ReactionTarget(t) = "message"

(***************************************************************************)
(* SpecCaption: the caption composer as a function of the action, the two  *)
(* display names and the random draws.  The initial states hold the        *)
(* arguments of one call in ev, and the step makes the call.               *)
(***************************************************************************)
\* the length above which owoify_caption cuts, and what it keeps
CAPTION_LIMIT == 280

CAPTION_KEEP == 277

Ellipsis == << ".", ".", "." >>

\* U+2665; U+2764 and U+FE0F, the two code points of the red heart
HeartSuit == "heart_suit"

RedHeart == << "heavy_heart", "vs16" >>

\* four of the entries of CUTE_SUFFIXES: two hold a token of owoify_caption,
\* two do not
CUTE_SUFFIXES ==
  << << "u", "w", "u" >>, << ">", "w", "<" >>, << HeartSuit >>, << "^", "_", "^" >> >>

\* the tokens owoify_caption looks for; the two emoji tokens occur in no text
\* of the model
CuteTokens ==
  { << "u", "w", "u" >>, << "o", "w", "o" >>, << "n", "y", "a" >>, << HeartSuit >>,
    << "sparkling_heart" >>, << "sparkles" >> }

\* CAPTION_TEMPLATES: three of the ten templates of hug, each as its pieces
\* in order: a text, or one of the replacement fields "{author}", "{target}"
\* and "{suffix}"
CAPTION_TEMPLATES ==
  [a \in {Hug} |->
  << << << "{author}" >>,
        << " ", "g", "i", "v", "e", "s", " " >>,
        << "{target}" >>,
        << " ", "t", "h", "e", " ", "w", "a", "r", "m", "e", "s", "t", " ", "h", "u", "g", " ", "e", "v", "e", "r", "." >> >>,
     << << "{author}" >>,
        << " ", "w", "r", "a", "p", "s", " " >>,
        << "{target}" >>,
        << " ", "i", "n", " ", "a", " ", "g", "i", "a", "n", "t", " ", "f", "l", "u", "f", "f", "y", " ", "h", "u", "g", " ", "u", "w", "u", "." >> >>,
     << << "{author}" >>,
        << " ", "s", "n", "u", "g", "g", "l", "e", "s", " " >>,
        << "{target}" >>,
        << " ", "w", "a", "r", "m", "l", "y", " " >>,
        << "{suffix}" >> >> >>]

\* CAPTION_TEMPLATES.get(action, [])
TemplatesGet(action) ==
  IF action \in DOMAIN CAPTION_TEMPLATES THEN CAPTION_TEMPLATES[action] ELSE << >>

\* template.format(author=author, target=target, suffix=suffix)
RECURSIVE Format(_, _, _, _)
Format(template, author, target, suffix) ==
  IF template = << >> THEN << >>
  ELSE (CASE Head(template) = << "{author}" >> -> author
          [] Head(template) = << "{target}" >> -> target
          [] Head(template) = << "{suffix}" >> -> suffix
          [] OTHER -> Head(template))
       \o Format(Tail(template), author, target, suffix)

\* re.sub(r"\s+", " ", text): every run of whitespace becomes one space.  A
\* whitespace character that follows another is dropped, the others become
\* a space.
Squeeze(text) ==
  LET marked == [i \in 1..Len(text) |->
                   [c |-> IF IsSpace(text[i]) THEN " " ELSE text[i],
                    drop |-> IsSpace(text[i]) /\ i > 1 /\ IsSpace(text[i - 1])]]
      Kept(m) == ~m.drop
      kept == SelectSeq(marked, Kept)
  IN  [i \in 1..Len(kept) |-> kept[i].c]

compact(text) == Strip(Squeeze(text))

\* token in lower
Contains(text, token) ==
  \E i \in 1..(Len(text) - Len(token) + 1) :
    SubSeq(text, i, i + Len(token) - 1) = token

\* the random draws of one call: the template, whether
\* generate_local_caption draws a suffix and which, the branch owoify_caption
\* takes ("suffix" for r < 0.35, "heart" for r < 0.65, else "none") and the
\* suffix it draws
Draws ==
  [ template : 1..3,
    suffix   : {0} \cup (1..Len(CUTE_SUFFIXES)),
    branch   : {"suffix", "heart", "none"},
    owo      : {1, 2} ]

SuffixOf(k) == IF k = 0 THEN << >> ELSE CUTE_SUFFIXES[k]

\* the caption before the length check of owoify_caption
Flavoured(caption, rnd) ==
  CASE rnd.branch = "suffix" -> caption \o << " " >> \o CUTE_SUFFIXES[rnd.owo]
    [] rnd.branch = "heart" -> caption \o << " " >> \o RedHeart
    [] OTHER -> caption

\* caption[:277] + "..." when len(caption) > 280
Cut(caption) ==
  IF Len(caption) > CAPTION_LIMIT
  THEN SubSeq(caption, 1, CAPTION_KEEP) \o Ellipsis
  ELSE caption

owoify_caption(caption, rnd) ==
  IF \E token \in CuteTokens : Contains(Lower(compact(caption)), token)
  THEN compact(caption)
  ELSE Cut(Flavoured(compact(caption), rnd))

generate_local_caption(action, author, target, rnd) ==
  IF TemplatesGet(action) = << >>
  THEN author \o << " " >> \o action \o << "s", " " >> \o target
         \o (IF rnd.suffix = 0 THEN << >> ELSE << " " >> \o SuffixOf(rnd.suffix))
  ELSE owoify_caption(
         compact(Format(TemplatesGet(action)[rnd.template], author, target,
                        SuffixOf(rnd.suffix))),
         rnd)

\* a display name of n letters
Name(n) == [i \in 1..n |-> "a"]

\* the length of the long display names of the model
LongName == 300

\* the display names: short ones, one of 32 letters and long ones, and names
\* that hold a token of owoify_caption or whitespace
DisplayNames ==
  { << "B", "o" >>, Name(32), Name(LongName),
    << "U", "w", "U" >> \o Name(LongName),
    << "A", " ", " ", "b" >> }

\* the actions send_owo_style composes captions for: one with templates and
\* one the pattern accepts that has none
CaptionActions == { Hug, LongSlap }

\* the process is about to call generate_local_caption: ev holds the
\* arguments and the random draws of the call
InitCaption ==
  /\ now = StartTime
  /\ COOLDOWNS = << >>
  /\ RECENT_GIFS = [g \in GuildIds |-> << >>]
  /\ TENOR_API_KEY = FALSE
  /\ tasks = EmptyBag
  /\ accepted = << >>
  /\ returned = [g \in GuildIds |-> "none"]
  /\ Untouched
  /\ ev \in [ op : {"call"}, action : CaptionActions, author : DisplayNames,
              target : { << "B", "o" >>, Name(LongName) }, rnd : Draws,
              out : { << >> } ]

\* the call of generate_local_caption
Caption ==
  /\ ev.op = "call"
  /\ ev' = [ev EXCEPT !.op = "generate_local_caption",
                      !.out = generate_local_caption(ev.action, ev.author,
                                                     ev.target, ev.rnd)]
  /\ UNCHANGED << now, COOLDOWNS, RECENT_GIFS, TENOR_API_KEY,
                  elsewhere, saturated, overlapped, tasks, accepted, returned >>

NextCaption == Caption

SpecCaption == InitCaption /\ [][NextCaption]_vars

C20_GuardedIgnored ==
  [][(/\ ev'.op = "Receive"
      /\ ev'.msg.bot \/ ev'.msg.private \/ Len(ev'.msg.content) = 0) =>
       /\ ev'.route = Ignore
       /\ ~ev'.denied
       /\ ~ev'.resolved
       /\ UNCHANGED << COOLDOWNS, RECENT_GIFS, tasks, accepted, returned >>]_vars

\* a bot writes a command that member 1 was answered for, the stores hold
\* entries and a Tenor key is set
C20_Witness ==
  /\ ev.op = "Receive"
  /\ ev.msg.bot
  /\ ev.msg.content = Hug \o << " " >> \o Mention2
  /\ [ev.msg EXCEPT !.bot = FALSE] \in ParseCommands
  /\ TENOR_API_KEY
  /\ << ev.msg.author, Hug >> \in DOMAIN COOLDOWNS
  /\ RECENT_GIFS[ev.msg.guild] # << >>

(***************************************************************************)
(* SpecValidate: the validation loop that runs once when the module is     *)
(* loaded, as a function of the bundled list of one action and of the      *)
(* generic list.  The initial states hold the two lists in ev, and the     *)
(* step runs the loop body for the action.                                 *)
(***************************************************************************)
\* the length the loop pads a bundled list to
MIN_FALLBACK_GIFS == 10

\* "": an entry the uniqueness loop skips
EmptyUrl == ""

\* the uniqueness loop: an entry joins uniq when it is not empty and not
\* there already
RECURSIVE Unique(_, _)
Unique(arr, uniq) ==
  IF Len(arr) = 0 THEN uniq
  ELSE Unique(Tail(arr),
              IF Head(arr) # EmptyUrl /\ ~InSeq(Head(arr), uniq)
              THEN Append(uniq, Head(arr)) ELSE uniq)

\* a padding loop that appends every generic entry it visits
RECURSIVE PadUnchecked(_, _, _)
PadUnchecked(uniq, generic, i) ==
  IF Len(uniq) < MIN_FALLBACK_GIFS /\ i < Len(generic)
  THEN PadUnchecked(Append(uniq, generic[i + 1]), generic, i + 1)
  ELSE uniq

\* the padding loop, from index i of the generic list
RECURSIVE Pad(_, _, _)
Pad(uniq, generic, i) ==
  IF Len(uniq) < MIN_FALLBACK_GIFS /\ i < Len(generic)
  THEN Pad(IF ~InSeq(generic[i + 1], uniq) THEN Append(uniq, generic[i + 1])
           ELSE uniq,
           generic, i + 1)
  ELSE uniq

\* uniq[:max(10, len(uniq))]
AtMost(uniq) ==
  LET k == IF MIN_FALLBACK_GIFS > Len(uniq) THEN MIN_FALLBACK_GIFS ELSE Len(uniq)
  IN  SubSeq(uniq, 1, IF k < Len(uniq) THEN k ELSE Len(uniq))

\* the new value of FALLBACK_GIFS[action]
Validated(arr, generic) == AtMost(Pad(Unique(arr, << >>), generic, 0))

\* the URLs "<p>1" .. "<p>n" in order, p being u for bundled URLs and y for
\* generic ones
Numbered(p, n) ==
  [k \in 1..n |->
     IF p = "u"
     THEN << "u1", "u2", "u3", "u4", "u5", "u6", "u7", "u8", "u9", "u10", "u11" >>[k]
     ELSE << "y1", "y2", "y3", "y4", "y5", "y6", "y7", "y8", "y9", "y10", "y11", "y12" >>[k]]

\* the longest of the short bundled lists
ShortList == 3

\* the bundled lists: every list of up to ShortList entries over two URLs and
\* the empty entry, a list of ten with one URL twice (as the lists of poke and
\* wave are), a list of ten and a list of eleven without repetition
BundledLists ==
  UNION { [1..n -> {EmptyUrl, "g1", "g2"}] : n \in 0..ShortList }
    \cup { SubSeq(Numbered("u", 9), 1, 4) \o << "u2" >> \o SubSeq(Numbered("u", 9), 5, 9),
           Numbered("u", 10), Numbered("u", 11) }

\* the generic lists: none, two URLs, a URL twice, URLs of the bundled lists
\* among the generic ones, and more URLs than the padding needs
GenericLists ==
  { << >>, << "x1", "x2" >>, << "x1", "x1", "x2" >>,
    << "g1", "x1", "u3", "g2", "x2" >>, Numbered("y", 12) }

\* the module is about to validate the list of one action: ev holds the
\* bundled list and the generic list
InitValidate ==
  /\ now = StartTime
  /\ COOLDOWNS = << >>
  /\ RECENT_GIFS = [g \in GuildIds |-> << >>]
  /\ TENOR_API_KEY = FALSE
  /\ tasks = EmptyBag
  /\ accepted = << >>
  /\ returned = [g \in GuildIds |-> "none"]
  /\ Untouched
  /\ ev \in [ op : {"load"}, arr : BundledLists, generic : GenericLists,
              out : { << >> } ]

\* one pass of the loop "for action in ACTIONS"
Validate ==
  /\ ev.op = "load"
  /\ ev' = [ev EXCEPT !.op = "validate", !.out = Validated(ev.arr, ev.generic)]
  /\ UNCHANGED << now, COOLDOWNS, RECENT_GIFS, TENOR_API_KEY,
                  elsewhere, saturated, overlapped, tasks, accepted, returned >>

NextValidate == Validate

SpecValidate == InitValidate /\ [][NextValidate]_vars

\* no entry of arr occurs twice
NoRepeat(arr) == \A i, j \in 1..Len(arr) : arr[i] = arr[j] => i = j

\* C21: the list the validation loop stores for an action holds no URL twice
\* and no empty entry, the entries taken from the generic list included.
C21_ValidatedListsDistinct ==
  ev.op = "validate" => NoRepeat(ev.out) /\ ~InSeq(EmptyUrl, ev.out)

\* a bundled list with an empty entry and a URL twice was padded from a
\* generic list that holds a URL twice and a URL of the bundled list
C21_Witness ==
  /\ ev.op = "validate"
  /\ InSeq(EmptyUrl, ev.arr)
  /\ ~NoRepeat(ev.arr)
  /\ ~NoRepeat(ev.generic)
  /\ \E k \in 1..Len(ev.out) : InSeq(ev.out[k], ev.generic) /\ ~InSeq(ev.out[k], ev.arr)

(***************************************************************************)
(* SpecCandidates: the candidate list of choose_gif_for_action as a        *)
(* function of the action, of whether the Tenor request is made and of     *)
(* what it yields.  The initial states hold these in ev, and the step      *)
(* runs the resolver up to the fallback test.                              *)
(***************************************************************************)
\* the longest result list of the searches of this specification
MaxResults == 4

\* the searches: every result list of up to MaxResults URLs over four URLs,
\* and the outcomes of TenorOutcomes
SearchOutcomes ==
  [kind : {"ok"},
   urls : UNION { [1..n -> {"t1", "t2", "t3", "t4"}] : n \in 0..MaxResults }]
    \cup TenorOutcomes

\* the resolver is about to run for an action: ev holds the action, whether
\* the key and the session are set, and what the request will do
InitCandidates ==
  /\ now = StartTime
  /\ COOLDOWNS = << >>
  /\ RECENT_GIFS = [g \in GuildIds |-> << >>]
  /\ TENOR_API_KEY = FALSE
  /\ tasks = EmptyBag
  /\ accepted = << >>
  /\ returned = [g \in GuildIds |-> "none"]
  /\ Untouched
  /\ ev \in [ op : {"search"}, action : {Hug, Slap, LongSlap},
              configured : BOOLEAN, outcome : SearchOutcomes, out : { << >> } ]

\* choose_gif_for_action down to "if not gifs or len(gifs) < 3"
Collect ==
  /\ ev.op = "search"
  /\ ev' = [ev EXCEPT !.op = "candidates",
                      !.out = Candidates(ev.action,
                                         tenor_guarded(ev.configured, ev.outcome).gifs)]
  /\ UNCHANGED << now, COOLDOWNS, RECENT_GIFS, TENOR_API_KEY,
                  elsewhere, saturated, overlapped, tasks, accepted, returned >>

NextCandidates == Collect

SpecCandidates == InitCandidates /\ [][NextCandidates]_vars

\* the positions of a result list that hold a URL for the first time
Firsts(urls) ==
  {i \in 1..Len(urls) : \A j \in 1..(i - 1) : urls[j] # urls[i]}

\* the distinct URLs of a result list, in result order
DistinctInOrder(urls) ==
  [k \in 1..Cardinality(Firsts(urls)) |->
     urls[CHOOSE i \in Firsts(urls) :
            Cardinality({j \in Firsts(urls) : j <= i}) = k]]

\* what the search of the latest step yielded: nothing when no request was
\* made or the request failed
Yielded ==
  IF ev.configured /\ ev.outcome.kind = "ok" THEN ev.outcome.urls ELSE << >>

\* C23: the candidate list is the list of the distinct URLs of the search, in
\* result order and cut to MAX_GIF_CANDIDATES, when the search yields three
\* distinct URLs or more; when it yields none, one or two, the candidate list
\* is the bundled list of the action and holds the search's URLs only where
\* the bundled list does.
C23_ResultsUsedFromThree ==
  ev.op = "candidates" =>
    IF Len(DistinctInOrder(Yielded)) >= MIN_TENOR_GIFS
    THEN ev.out = SubSeq(DistinctInOrder(Yielded), 1,
                         IF Len(DistinctInOrder(Yielded)) > MAX_GIF_CANDIDATES
                         THEN MAX_GIF_CANDIDATES
                         ELSE Len(DistinctInOrder(Yielded)))
    ELSE ev.out = FallbackGet(ev.action)

\* a search yielded three URLs or more, two of them distinct, and the bundled
\* list of the action became the candidate list
C23_Witness ==
  /\ ev.op = "candidates"
  /\ ev.configured
  /\ ev.outcome.kind = "ok"
  /\ Len(ev.outcome.urls) >= MIN_TENOR_GIFS
  /\ Cardinality(Urls(ev.outcome.urls)) = 2
  /\ Len(ev.out) > 0
  /\ ev.out = FallbackGet(ev.action)

(***************************************************************************)
(* SpecUsers: the cooldown store with two users.  No Tenor key is set;     *)
(* the two members use the actions in guild 1 and the clock runs.          *)
(***************************************************************************)
\* member 1 uses two actions and member 2 one of them, in guild 1
UsersMessages ==
  { Text(1, 1, Hug \o << " " >> \o Mention2),
    Text(2, 1, Hug \o << "@" >> \o Bob),
    Text(1, 1, Slap \o << " " >> \o Mention2) }

UsersTasks == 1

UsersHorizon == 1

NextUsers ==
  \/ \E msg \in UsersMessages : Receive(msg, UsersTasks)
  \/ Resume
  \/ Tick(StartTime + UsersHorizon)

SpecUsers == Init /\ [][NextUsers]_vars

\* C25: a step changes no entry of the cooldown store, except that a step
\* that accepts action A from user U writes the entry of (U, A) alone; and an
\* invocation is denied only inside the window of an accepted use of the
\* same action by the same user, whatever the other users did.
C25_OnlyOwnEntryWritten ==
  [][/\ DOMAIN COOLDOWNS \subseteq DOMAIN COOLDOWNS'
     /\ \A k \in DOMAIN COOLDOWNS' :
          (k \notin DOMAIN COOLDOWNS \/ COOLDOWNS'[k] # COOLDOWNS[k]) =>
            /\ ev'.op = "Receive"
            /\ ev'.route.kind = "dispatch"
            /\ ~ev'.denied
            /\ k = << ev'.msg.author, ev'.route.action >>
     /\ (ev'.op = "Receive" /\ ev'.denied) =>
          /\ << ev'.msg.author, ev'.route.action >> \in DOMAIN accepted
          /\ \E i \in 1..Len(accepted[<< ev'.msg.author, ev'.route.action >>]) :
               now < accepted[<< ev'.msg.author, ev'.route.action >>][i]
                       + COOLDOWN_SECONDS]_vars

\* member 2 is accepted for hug one second after member 1 was, inside the
\* window of member 1, whose entries for hug and slap keep their timestamps
C25_Witness ==
  /\ Invoked
  /\ ~ev.denied
  /\ InvokedKey = << 2, Hug >>
  /\ DOMAIN COOLDOWNS = { << 1, Hug >>, << 1, Slap >>, << 2, Hug >> }
  /\ COOLDOWNS[<< 1, Hug >>] = StartTime
  /\ COOLDOWNS[<< 1, Slap >>] = StartTime + 1
  /\ COOLDOWNS[<< 2, Hug >>] = StartTime + 1

\* C26: a denied invocation changes neither the cooldown store nor a recent
\* list, at the check and when its notice is sent: the entry of (user, action)
\* still holds the time of the latest accepted use, so the remaining wait is
\* counted from that use however many attempts were denied since.
C26_DenialKeepsTimestamp ==
  [][/\ (ev'.op = "Receive" /\ ev'.denied) =>
          /\ UNCHANGED << COOLDOWNS, RECENT_GIFS >>
          /\ << ev'.msg.author, ev'.route.action >> \in DOMAIN accepted'
          /\ LET key == << ev'.msg.author, ev'.route.action >>
                 last == accepted'[key][Len(accepted'[key])]
             IN  /\ COOLDOWNS'[key] = last
                 /\ get_cooldown_remaining(COOLDOWNS', key[1], key[2], now')
                      = last + COOLDOWN_SECONDS - now'
                 /\ get_cooldown_remaining(COOLDOWNS', key[1], key[2],
                                           last + COOLDOWN_SECONDS) = 0
     /\ ev'.op = "DenySend" => UNCHANGED << COOLDOWNS, RECENT_GIFS >>]_vars

\* a second attempt is denied while the notice of the first denied attempt is
\* still being sent, one second into the window of the accepted use, whose
\* timestamp the store still holds
C26_Witness ==
  /\ Invoked
  /\ ev.denied
  /\ CopiesIn(DenyTask(ev.msg, ev.route), tasks) = 2
  /\ COOLDOWNS[InvokedKey] = StartTime
  /\ now = StartTime + 1
  /\ RECENT_GIFS[ev.msg.guild] # << >>

(***************************************************************************)
(* SpecRecent: the recent lists under add_recent_gif alone, its only       *)
(* writer.  The initial states hold a value of RECENT_GIF_RETENTION in ev, *)
(* and each step adds a URL to the list of a guild.                        *)
(***************************************************************************)
\* the largest RECENT_GIF_RETENTION of this specification
MaxRetention == 3

\* the URLs that are added
RecentUrls == {"g1", "g2", "g3", "g4"}

InitRecent ==
  /\ now = StartTime
  /\ COOLDOWNS = << >>
  /\ RECENT_GIFS = [g \in GuildIds |-> << >>]
  /\ TENOR_API_KEY = FALSE
  /\ tasks = EmptyBag
  /\ accepted = << >>
  /\ returned = [g \in GuildIds |-> "none"]
  /\ Untouched
  /\ ev \in [ op : {"start"}, retention : 1..MaxRetention, guild : {1},
              gif_url : {NoURL}, before : { << >> } ]

\* add_recent_gif(guild_id, gif_url)
AddRecent(guild_id, gif_url) ==
  /\ RECENT_GIFS' = [RECENT_GIFS EXCEPT ![guild_id] =
                       add_recent_gif_at(RECENT_GIFS[guild_id], gif_url, ev.retention)]
  /\ ev' = [ev EXCEPT !.op = "add_recent_gif", !.guild = guild_id,
                      !.gif_url = gif_url, !.before = RECENT_GIFS[guild_id]]
  /\ UNCHANGED << now, COOLDOWNS, TENOR_API_KEY, elsewhere, saturated, overlapped,
                  tasks, accepted, returned >>

NextRecent == \E guild_id \in GuildIds, gif_url \in RecentUrls : AddRecent(guild_id, gif_url)

SpecRecent == InitRecent /\ [][NextRecent]_vars

\* the entries of arr other than x, in order
Without(arr, x) == SelectSeq(arr, LAMBDA u : u # x)

\* C27: no recent list holds a URL twice; and after a URL was added it is the
\* head of its guild's list, the entries after it are the other entries of
\* the list before, in their order (cut at the cap), and when the URL was in
\* the list already the list has the length it had.
C27_RecentListDistinct ==
  /\ \A g \in GuildIds : NoRepeat(RECENT_GIFS[g])
  /\ ev.op = "add_recent_gif" =>
       /\ RECENT_GIFS[ev.guild][1] = ev.gif_url
       /\ Tail(RECENT_GIFS[ev.guild])
            = SubSeq(Without(ev.before, ev.gif_url), 1, Len(RECENT_GIFS[ev.guild]) - 1)
       /\ InSeq(ev.gif_url, ev.before) => Len(RECENT_GIFS[ev.guild]) = Len(ev.before)
       /\ Len(RECENT_GIFS[ev.guild]) <= ev.retention

\* the last URL of a full list of three is added again: it moves to the head
\* and the two before it keep their order
C27_Witness ==
  /\ ev.op = "add_recent_gif"
  /\ Len(ev.before) = 3
  /\ ev.before[3] = ev.gif_url
  /\ RECENT_GIFS[ev.guild] = << ev.before[3], ev.before[1], ev.before[2] >>

(***************************************************************************)
(* SpecSaturated: the recent list once every bundled URL of an action is   *)
(* in it.  The inputs of SpecRepeat, with the actions whose URLs are all   *)
(* recent recorded in saturated.                                           *)
(***************************************************************************)
\* the state after the module is imported, no Tenor key set
InitSaturated ==
  /\ now = StartTime
  /\ COOLDOWNS = << >>
  /\ RECENT_GIFS = [g \in GuildIds |-> << >>]
  /\ TENOR_API_KEY = FALSE
  /\ tasks = EmptyBag
  /\ accepted = << >>
  /\ returned = [g \in GuildIds |-> "none"]
  /\ saturated = [g \in GuildIds |-> {}]
  /\ overlapped = << >>
  /\ posted_memes = << >>
  /\ delivered = << >>
  /\ controls = << >>
  /\ ev = NoEvent

SpecSaturated == InitSaturated /\ [][NextRepeat]_vars

\* C28: when RECENT_GIF_RETENTION is at least the number of candidates of an
\* action, a resolution of that action in a guild where every candidate has
\* been in the recent list since the last resolution of another action
\* returns the first candidate.
C28_SaturatedReturnsFirst ==
  [][\A g \in GuildIds, a \in DOMAIN FALLBACK_GIFS :
       (/\ ev'.resolved
        /\ ~ev'.raised
        /\ ResolvedGuild' = g
        /\ ResolvedAction' = a
        /\ a \in saturated[g]
        /\ RECENT_GIF_RETENTION >= Len(FALLBACK_GIFS[a])) =>
         ev'.url = FALLBACK_GIFS[a][1]]_vars

(***************************************************************************)
(* SpecOverlap: resolutions that await Tenor together.  The key is set;    *)
(* both members use both actions in guild 1; overlapped records, for each  *)
(* coroutine that awaits Tenor, what the resolutions that ended meanwhile  *)
(* returned.                                                               *)
(***************************************************************************)
OverlapTasks == 2

\* the state after the module is imported, the Tenor key set
InitOverlap ==
  /\ now = StartTime
  /\ COOLDOWNS = << >>
  /\ RECENT_GIFS = [g \in GuildIds |-> << >>]
  /\ TENOR_API_KEY = TRUE
  /\ tasks = EmptyBag
  /\ accepted = << >>
  /\ returned = [g \in GuildIds |-> "none"]
  /\ saturated = << >>
  /\ overlapped = [g \in GuildIds |-> {}]
  /\ posted_memes = << >>
  /\ delivered = << >>
  /\ controls = << >>
  /\ ev = NoEvent

\* the request yields no URL (the bundled list is used) or five URLs (three
\* distinct ones are used)
OverlapOutcomes == {o \in TenorOutcomes : o.kind = "ok" /\ Len(o.urls) \in {0, 5}}

\* the member has not used the action of the message yet
FirstUse(msg) == << msg.author, RouteTable[msg].action >> \notin DOMAIN accepted

\* each member uses each action once, so no invocation is denied; the sends
\* and the reactions return
NextOverlap ==
  \/ \E msg \in RepeatMessages : FirstUse(msg) /\ Receive(msg, OverlapTasks)
  \/ \E t \in BagToSet(tasks), outcome \in OverlapOutcomes : TenorReturn(t, outcome)
  \/ \E t \in BagToSet(tasks) : SendText(t, TRUE)
  \/ \E t \in BagToSet(tasks) : SendImage(t, TRUE)
  \/ \E t \in BagToSet(tasks) : React(t, TRUE)

SpecOverlap == InitOverlap /\ [][NextOverlap]_vars

\* C29 as stated: a resolution whose candidate list holds two URLs or more
\* that are not recent returns a URL different from the one that any
\* resolution returned which ended while this one awaited Tenor in the same
\* guild and whose candidate list held two such URLs as well.
C29_ConcurrentDistinct ==
  (/\ ev.op = "TenorReturn"
   /\ ~ev.raised
   /\ FreshCount(ResolvedCandidates, ev.before) >= 2) =>
    \A m \in ev.met : m[2] => m[1] # ev.url

\* C29, amended: a resolution whose candidate list holds a URL that is not
\* recent returns a URL different from the one that any resolution returned
\* which ended while this one awaited Tenor in the same guild, as long as that
\* URL is still in the guild's recent list when this one selects.
C29_ConcurrentDistinctWhileRecent ==
  (/\ ev.op = "TenorReturn"
   /\ ~ev.raised
   /\ FreshCount(ResolvedCandidates, ev.before) >= 1) =>
    \A m \in ev.met : InSeq(m[1], ev.before) => m[1] # ev.url

\* a resolution with two fresh candidates ends after another one, which had
\* two fresh candidates too, ended while it awaited Tenor; the URL of that one
\* is still in the recent list and this one returns another URL
C29_Witness ==
  /\ ev.op = "TenorReturn"
  /\ ~ev.raised
  /\ FreshCount(ResolvedCandidates, ev.before) >= 2
  /\ \E m \in ev.met : m[2] /\ InSeq(m[1], ev.before) /\ m[1] # ev.url

(***************************************************************************)
(* SpecMemes: the scheduled poster of src/memes.py.  The loop meme_task    *)
(* and the command dropmeme search YouTube, select a video that is not in  *)
(* posted_memes, send it and record it; their coroutines are in flight     *)
(* together.                                                               *)
(***************************************************************************)
\* the state of the fun-command engine, which src/memes.py never touches
engine ==
  << now, COOLDOWNS, RECENT_GIFS, TENOR_API_KEY, accepted, returned, saturated,
     overlapped >>

\* at most so many poster coroutines are in flight
MemeTasks == 2

\* at most so many videos are sent
MemePosts == 3

\* MEME_CHANNEL_ID, and the id of another channel of the guild
MEME_CHANNEL_ID == 1

OtherChannel == 2

\* the video ids YouTube knows
VideoIds == {"v1", "v2", "v3"}

\* None, for an item
NoItem == "none"

\* What _youtube_search does: it raises, or it returns a response whose items
\* carry these video ids, in this order.
SearchResponses ==
  [raised : {TRUE}, items : {<< >>}]
    \cup [raised : {FALSE},
          items : {<< >>, << "v1" >>, << "v1", "v2" >>, << "v2", "v3", "v1" >>}]

\* the locals of a poster coroutine that awaits its search
Poster(kind, channel) ==
  [pc |-> "search", kind |-> kind, channel |-> channel, video_id |-> NoItem]

NoPost == [op |-> "none", task |-> Poster("none", 0), ok |-> TRUE, candidates |-> {}]

\* the state after src/memes.py is imported: load_posted() has read the file
InitMemes ==
  /\ now = StartTime
  /\ COOLDOWNS = << >>
  /\ RECENT_GIFS = [g \in GuildIds |-> << >>]
  /\ TENOR_API_KEY = FALSE
  /\ tasks = EmptyBag
  /\ accepted = << >>
  /\ returned = [g \in GuildIds |-> "none"]
  /\ saturated = << >>
  /\ overlapped = << >>
  /\ posted_memes \in {<< >>, << "v3" >>}
  /\ delivered = << >>
  /\ controls = << >>
  /\ ev = NoPost

\* whether another poster coroutine may start
MayStart ==
  /\ BagCardinality(tasks) < MemeTasks
  /\ Len(delivered) + BagCardinality(tasks) < MemePosts

\* An iteration of the loop meme_task starts (the loop runs one iteration at
\* a time) and runs to the await of fetch_random_meme; without the channel it
\* returns at once.
meme_task(found) ==
  /\ MayStart
  /\ \A t \in BagToSet(tasks) : t.kind # "meme_task"
  /\ tasks' = IF found THEN Put(tasks, Poster("meme_task", MEME_CHANNEL_ID)) ELSE tasks
  /\ ev' = [NoPost EXCEPT !.op = "meme_task", !.ok = found]
  /\ UNCHANGED << engine, posted_memes, delivered, controls >>

\* An administrator writes `pb dropmeme` in a channel: dropmeme runs to the
\* await of fetch_random_meme.
dropmeme(channel) ==
  /\ MayStart
  /\ tasks' = Put(tasks, Poster("dropmeme", channel))
  /\ ev' = [NoPost EXCEPT !.op = "dropmeme"]
  /\ UNCHANGED << engine, posted_memes, delivered, controls >>

\* the candidates of fetch_random_meme: the items of the response whose video
\* id is not in posted
NewVideos(response, posted) ==
  {response.items[k] : k \in {i \in 1..Len(response.items) :
                                ~InSeq(response.items[i], posted)}}

\* The search of a coroutine ends: fetch_random_meme filters the items and
\* draws item among the candidates (NoItem when there is none or the search
\* raised), and the coroutine goes on to its next await.
fetch_random_meme(t, response, item) ==
  /\ BagIn(t, tasks)
  /\ t.pc = "search"
  /\ IF response.raised \/ NewVideos(response, posted_memes) = {}
     THEN item = NoItem
     ELSE item \in NewVideos(response, posted_memes)
  /\ tasks' = IF item # NoItem
              THEN Put(Take(tasks, t), [t EXCEPT !.pc = "send", !.video_id = item])
              ELSE IF t.kind = "dropmeme"
              THEN Put(Take(tasks, t), [t EXCEPT !.pc = "send_none"])
              ELSE Take(tasks, t)
  /\ ev' = [NoPost EXCEPT !.op = "fetch_random_meme", !.task = t,
                          !.ok = ~response.raised,
                          !.candidates = IF response.raised THEN {}
                                         ELSE NewVideos(response, posted_memes)]
  /\ UNCHANGED << engine, posted_memes, delivered, controls >>

\* posted_memes after the send of a coroutine returned (ok) or raised
AppendAfterSend(posted, video_id, ok) ==
  IF ok THEN Append(posted, video_id) ELSE posted

\* channel.send / ctx.send of the embed returns or raises; the append to
\* posted_memes follows the send that returned, and the coroutine ends.
SendEmbed(t, ok) ==
  /\ BagIn(t, tasks)
  /\ t.pc = "send"
  /\ tasks' = Take(tasks, t)
  /\ delivered' = IF ok THEN Append(delivered, << t.channel, t.video_id >>)
                  ELSE delivered
  /\ posted_memes' = AppendAfterSend(posted_memes, t.video_id, ok)
  /\ ev' = [NoPost EXCEPT !.op = "send", !.task = t, !.ok = ok]
  /\ UNCHANGED << engine, controls >>

\* ctx.send of "No new memes right now" returns or raises; dropmeme ends.
SendNone(t, ok) ==
  /\ BagIn(t, tasks)
  /\ t.pc = "send_none"
  /\ tasks' = Take(tasks, t)
  /\ ev' = [NoPost EXCEPT !.op = "send_none", !.task = t, !.ok = ok]
  /\ UNCHANGED << engine, posted_memes, delivered, controls >>

NextMemes ==
  \/ \E found \in BOOLEAN : meme_task(found)
  \/ \E channel \in {MEME_CHANNEL_ID, OtherChannel} : dropmeme(channel)
  \/ \E t \in BagToSet(tasks), response \in SearchResponses,
        item \in VideoIds \cup {NoItem} : fetch_random_meme(t, response, item)
  \/ \E t \in BagToSet(tasks), ok \in BOOLEAN : SendEmbed(t, ok)
  \/ \E t \in BagToSet(tasks), ok \in BOOLEAN : SendNone(t, ok)

SpecMemes == InitMemes /\ [][NextMemes]_vars

\* C30: no video id is sent to a channel twice.
C30_NoVideoSentTwice ==
  \A i, j \in 1..Len(delivered) : i # j => delivered[i] # delivered[j]

(***************************************************************************)
(* SpecControls: the control set of a response (react-back, repeat,        *)
(* favorite, shuffle, hide, close).  src/ holds no code for it; the state  *)
(* machine is the one of section 4.6 of the specification.                 *)
(***************************************************************************)
\* at most so many new responses are emitted by the controls of the response
MaxResponses == 2

\* the capacity of a user's favorites for an action, scaled to the URLs of
\* the model
FAVORITES_CAPACITY == 1

\* the author and sender of the response, its target, and a bystander
ControlUsers == {1, 2, 3}

ControlNames == {"react_back", "repeat", "favorite", "shuffle", "hide", "close"}

\* the controls that call the resolver
Resolving == {"react_back", "repeat", "shuffle"}

\* the URLs the resolver returns for the action of the response
ControlUrls == {"g1", "g2"}

\* closed and expired
Terminal == {"closed", "expired"}

\* a response as it is emitted, its control set active
Emitted(author, target, sender, url) ==
  [state |-> "active", author |-> author, target |-> target, sender |-> sender,
   url |-> url, shown |-> TRUE]

NoPress ==
  [op |-> "none", control |-> "none", user |-> 0, before |-> Emitted(0, 0, 0, NoURL)]

\* the state after a response of member 1 to member 2 was emitted: set is the
\* response and its control set, emitted the responses its controls emitted,
\* favorites the favorites of the users for the action
InitControls ==
  /\ now = StartTime
  /\ COOLDOWNS = << >>
  /\ RECENT_GIFS = [g \in GuildIds |-> << >>]
  /\ TENOR_API_KEY = FALSE
  /\ tasks = EmptyBag
  /\ accepted = << >>
  /\ returned = [g \in GuildIds |-> "none"]
  /\ saturated = << >>
  /\ overlapped = << >>
  /\ posted_memes = << >>
  /\ delivered = << >>
  /\ \E url \in ControlUrls :
       controls = [set |-> Emitted(1, 2, 1, url),
                   emitted |-> << >>,
                   favorites |-> [u \in ControlUsers |-> << >>]]
  /\ ev = NoPress

\* a control that acts whenever the user is one of the three
AllowedInAnyState(set, user) == user \in {set.author, set.target, set.sender}

\* whether a control of the set acts for the user: the set is active and the
\* user is the original author, target or sender
Allowed(set, user) ==
  /\ set.state = "active"
  /\ user \in {set.author, set.target, set.sender}

\* the favorites of the user after Favorite: the URL is appended unless it is
\* present or the list is at capacity
Favorited(favs, url) ==
  IF InSeq(url, favs) \/ Len(favs) >= FAVORITES_CAPACITY THEN favs
  ELSE Append(favs, url)

\* controls after the user has used the control; url is what the resolver
\* returns, ok whether the platform lets the message be deleted
Pressed(c, control, user, url, ok) ==
  IF ~Allowed(c.set, user) THEN c
  ELSE CASE control = "react_back" ->
              [c EXCEPT !.emitted = Append(@, Emitted(c.set.target, c.set.author,
                                                      user, url))]
         [] control = "repeat" ->
              [c EXCEPT !.emitted = Append(@, Emitted(c.set.author, c.set.target,
                                                      user, url))]
         [] control = "favorite" ->
              [c EXCEPT !.favorites[user] = Favorited(@, c.set.url)]
         [] control = "shuffle" -> [c EXCEPT !.set.url = url]
         [] control = "hide" -> [c EXCEPT !.set.shown = ~ok]
         [] OTHER -> [c EXCEPT !.set.state = "closed"]

\* A user uses a control of the response, which is still shown.
Press(control, user, url, ok) ==
  /\ controls.set.shown
  /\ control \in {"react_back", "repeat"} => Len(controls.emitted) < MaxResponses
  /\ controls' = Pressed(controls, control, user, url, ok)
  /\ ev' = [op |-> "Press", control |-> control, user |-> user,
            before |-> controls.set]
  /\ UNCHANGED << engine, tasks, posted_memes, delivered >>

\* The interaction timeout of the platform ends the active control set.
Expire ==
  /\ controls.set.state = "active"
  /\ controls' = [controls EXCEPT !.set.state = "expired"]
  /\ ev' = [NoPress EXCEPT !.op = "Expire", !.before = controls.set]
  /\ UNCHANGED << engine, tasks, posted_memes, delivered >>

NextControls ==
  \/ \E control \in ControlNames, user \in ControlUsers :
       \E url \in IF control \in Resolving THEN ControlUrls ELSE {NoURL},
          ok \in IF control = "hide" THEN BOOLEAN ELSE {TRUE} :
         Press(control, user, url, ok)
  \/ Expire

SpecControls == InitControls /\ [][NextControls]_vars

\* C22: a control set that is closed or expired stays in that state, and a
\* control used on it changes nothing: no response is emitted, edited or
\* deleted and no favorite is added.
C22_TerminalIsFinal ==
  [][controls.set.state \in Terminal =>
       /\ controls'.set.state = controls.set.state
       /\ ev'.op = "Press" => controls' = controls]_vars

\* shuffle was used on a closed control set by its author: nothing changed
C22_Witness ==
  /\ ev.op = "Press"
  /\ ev.control = "shuffle"
  /\ ev.before.state = "closed"
  /\ ev.user = ev.before.author
  /\ controls.set = ev.before

====
